---- MODULE Spec2Model ----
(***************************************************************************)
(* Focus-navigation and view-transition engine of the skilltree frontend.  *)
(*                                                                         *)
(* Page (focus stack, popFocus, load), GraphStage (layer list, engine map, *)
(* camera mirroring), enterFocusTransition and exitFocusTransition.        *)
(* Every asynchronous handler is a process; one action is one synchronous  *)
(* block of its code (from one await to the next).                         *)
(***************************************************************************)
EXTENDS Integers, Sequences, FiniteSets, TLC

\* ------------------------------------------------------------------ bounds
MaxProcs == 2       \* enter/back requests issued in one behaviour
MaxFrames == 2      \* poll budget of waitForCy (120 frames in the code), scaled
MaxStack == 1       \* focus stack depth up to which a boundary-hint jump is taken
MaxFits == 1        \* fit animations of the engines' own cameras in one behaviour
MaxEdges == 3       \* low-level edges of a snapshot
MaxRuns == 2        \* projections of one snapshot
MaxVisited == 5     \* MAX_VISITED of the highlight traversal (200 in the code), scaled

\* --------------------------------------------------------------- constants
Groups == {"G", "H"}                  \* expandable group ids of the data set
RootScope == "root"                   \* the scope of GET /api/graph
Scopes == Groups \cup {RootScope}
MAX_DEPTH == 3                        \* highlightRequiresChain: MAX_DEPTH
MaxZoomIn == 3000                     \* Math.min(anchorZoom * 1.4, 3), in thousandths

VARIABLES
  focusStack,   \* Page: FocusEntry[]
  error,        \* Page: error message state ("" is null)
  graph,        \* Page: scope of the snapshot held in `graph`
  layers,       \* GraphStage: StageLayer[]
  cyByKey,      \* GraphStage: cyByKeyRef, layer key -> engine id
  cameraRef,    \* GraphStage: cameraRef.current
  cys,          \* engines ever created: key, alive, cam, captured layers,
                \* and the dispatcher installed on them (tapTimer, closures)
  fits,         \* fit animations run so far
  procs,        \* handleEnterFocus / popFocus invocations
  now,          \* Date.now()
  show,         \* Page: showRequires, showRecommended, showRelated
  autoDefaultsAppliedRef,   \* Page: autoDefaultsAppliedRef.current
  selected,     \* Page: id of the selected node ("" is null)
  highlightPrereqs,         \* Page: prerequisite-highlight mode
  called,       \* the calls of the pointer handler that ran in the last step
  calc          \* a pure function under study: its input and its result

stageVars == <<focusStack, error, graph, layers, cyByKey, cameraRef, cys, fits, procs, now,
               show, autoDefaultsAppliedRef, selected, highlightPrereqs, called>>
vars == <<focusStack, error, graph, layers, cyByKey, cameraRef, cys, fits, procs, now,
          show, autoDefaultsAppliedRef, selected, highlightPrereqs, called, calc>>

\* ------------------------------------------------------------------ values
NoKey == [kind |-> "none", rid |-> "", t |-> 0]
RootKey == [kind |-> "root", rid |-> "", t |-> 0]
NoCam == [pan |-> 0, zoom |-> 0]
DefaultCam == [pan |-> 0, zoom |-> 1000]   \* a new engine: pan 0, zoom 1.0
\* cameras a fit of the visible elements can produce (depends on geometry)
FitCams == {[pan |-> 1, zoom |-> 2500]}

NoCalc == [fn |-> "none"]

\* nodes of a snapshot: G and H are groups with children, E is a group
\* without children, n is a concept
Nodes == {"G", "H", "E", "n"}
NoNode == ""                          \* null: no node, no pending timer
NodeKind(n) == IF n \in {"G", "H", "E"} THEN "group" ELSE "concept"
NodeHasChildren(n) == n \in {"G", "H"}
\* the calls a pointer handler made: clearTimeout of a pending tap (its
\* node), cy.$("node").unselect(), select() of the
\* tapped node, onSelect ("-" is not called, "" is null), restoreAll,
\* highlightSelected, onEnterFocus
NoCall == [handler |-> "none", cy |-> 0, clearTimeout |-> NoNode,
           unselect |-> FALSE, select |-> NoNode,
           onSelect |-> "-", restoreAll |-> FALSE,
           highlightSelected |-> NoNode, onEnterFocus |-> NoNode]

Last(s) == s[Len(s)]
Min(a, b) == IF a < b THEN a ELSE b
KeysOf(ls) == {ls[i].key : i \in 1..Len(ls)}

\* cyByKeyRef.current.get(key) ?? null ; 0 is null
CyAt(byKey, k) == IF k \in DOMAIN byKey THEN byKey[k] ELSE 0

\* focusId of the Page
FocusIdOf(stack) == IF Len(stack) > 0 THEN Last(stack).id ELSE RootScope

\* ------------------------------------------------- GraphStage.updateCamera
\* cameraRef.current = {pan, zoom}; safeApplyCamera on every registered engine
ApplyCamera(cs, byKey, cam) ==
  [c \in 1..Len(cs) |->
     IF cs[c].alive /\ (\E k \in DOMAIN byKey : byKey[k] = c)
       THEN [cs[c] EXCEPT !.cam = cam]
       ELSE cs[c]]

\* ------------------------------------------- React commit of a layer list
\* Layers whose key is new are mounted (GraphViewLayer effect creates an
\* engine and registers it, unless the container is missing); layers whose
\* key disappeared are unmounted (engine unregistered and destroyed).
Mounted(old, new) == KeysOf(new) \ KeysOf(old)
Unmounted(old, new) == KeysOf(old) \ KeysOf(new)

\* the newly attached keys, in layer order
AttachSeq(new, att) ==
  LET F[i \in 0..Len(new)] ==
        IF i = 0 THEN <<>>
        ELSE IF new[i].key \in att /\ ~(\E j \in 1..(i-1) : new[j].key = new[i].key)
               THEN Append(F[i-1], new[i].key)
               ELSE F[i-1]
  IN F[Len(new)]

\* the cleanup of the GraphViewLayer effect: onCyInstance(null), cy.destroy();
\* the tapTimer of the dispatcher is left as it is. The closures of a
\* destroyed layer matter only while its timer is pending.
Destroyed(e) ==
  [e EXCEPT !.alive = FALSE, !.lay = <<>>,
            !.shouldHighlight = (e.tapTimer # NoNode /\ e.shouldHighlight)]

CysAfterCommit(cs, byKey, old, new, att) ==
  LET gone == Unmounted(old, new)
      kept == [c \in 1..Len(cs) |->
                 IF cs[c].alive /\ cs[c].key \in gone /\ CyAt(byKey, cs[c].key) = c
                   THEN Destroyed(cs[c])
                   ELSE cs[c]]
      aseq == AttachSeq(new, att)
      fresh == [j \in 1..Len(aseq) |->
                  [key |-> aseq[j], alive |-> TRUE, cam |-> DefaultCam,
                   lay |-> new, tapTimer |-> NoNode,
                   shouldHighlight |-> highlightPrereqs, highlighted |-> NoNode]]
  IN kept \o fresh

ByKeyAfterCommit(cs, byKey, old, new, att) ==
  LET gone == Unmounted(old, new)
      aseq == AttachSeq(new, att)
      keep == (DOMAIN byKey) \ gone
      idx(k) == CHOOSE j \in 1..Len(aseq) : aseq[j] = k
  IN [k \in keep \cup att |->
        IF k \in att THEN Len(cs) + idx(k) ELSE byKey[k]]

\* ---------------------------------------------------------------- Page
\* mutant: the entry records the default camera, not the camera of the request
NewEntryDefaultCam(g, cam) == [id |-> g, hasAnchor |-> TRUE, pan |-> 0, zoom |-> 1000]

NewEntry(g, cam) == [id |-> g, hasAnchor |-> TRUE, pan |-> cam.pan, zoom |-> cam.zoom]
JumpEntry(g) == [id |-> g, hasAnchor |-> FALSE, pan |-> 0, zoom |-> 0]

\* setFocusStack((s) => [...s, entry]), without the test of the top entry
PushEntryAlways(stack, e) == Append(stack, e)

\* setFocusStack((s) => (s.at(-1)?.id === entry.id ? s : [...s, entry]))
PushEntry(stack, e) ==
  IF Len(stack) > 0 /\ Last(stack).id = e.id THEN stack ELSE Append(stack, e)

\* setFocusStack((s) => s.slice(0, -1))
PopEntry(stack) == IF Len(stack) = 0 THEN stack ELSE SubSeq(stack, 1, Len(stack) - 1)

\* the effect with setShowRequires following the mode like the other two
DefaultShowByMode(mode) ==
  [requires |-> (mode = "focus"), recommended |-> (mode = "focus"),
   related |-> (mode = "focus")]

\* mutant: the effect shows the recommended and related edges in both modes
DefaultShowAlways(mode) == [requires |-> TRUE, recommended |-> TRUE, related |-> TRUE]

\* the flags the autoDefaults effect sets for a mode; showRequires is always set
DefaultShow(mode) ==
  [requires |-> TRUE, recommended |-> (mode = "focus"), related |-> (mode = "focus")]

\* mutant: the effect applies the defaults on every change of focusId
AutoDefaultsNeverSkip(applied, mode) == FALSE

\* `if (autoDefaultsAppliedRef.current === mode) return;`
AutoDefaultsSkip(applied, mode) == applied = mode

\* useEffect(..., [focusId]) of autoDefaultsAppliedRef: runs when focusId changed
AutoDefaults(newStack) ==
  LET mode == IF Len(newStack) > 0 THEN "focus" ELSE "baseline"
  IN IF FocusIdOf(newStack) # FocusIdOf(focusStack)
        /\ ~AutoDefaultsSkip(autoDefaultsAppliedRef, mode)
       THEN /\ show' = DefaultShow(mode)
            /\ autoDefaultsAppliedRef' = mode
       ELSE /\ show' = show
            /\ autoDefaultsAppliedRef' = autoDefaultsAppliedRef

\* the effects keyed on focusId, run by the render that follows a change of
\* the focus stack: the autoDefaults effect, and
\* useEffect(() => load(focusId), [focusId]): load() does setError(null), then
\* setGraph(snapshot) or setError(message); the outcome of its fetch is
\* drawn here. `scope` is what the handler itself passed to setGraph, if any.
FocusEffect(newStack, scope) ==
  /\ AutoDefaults(newStack)
  /\ IF FocusIdOf(newStack) # FocusIdOf(focusStack)
       THEN \/ /\ error' = ""
               /\ graph' = FocusIdOf(newStack)
            \/ /\ error' = "load failed"
               /\ graph' = scope
       ELSE /\ error' = error
            /\ graph' = scope

\* ------------------------------------------------------------- processes
IdleProc == [kind |-> "none", pc |-> "none", cy |-> 0, gid |-> "", key |-> NoKey,
             lay |-> <<>>, tgt |-> NoCam, hasTgt |-> FALSE, frames |-> 0,
             stepped |-> FALSE, t0 |-> 0, pushed |-> FALSE, len0 |-> 0]

Finished(p, outcome) == [IdleProc EXCEPT !.kind = p.kind, !.pc = outcome, !.key = p.key,
                                         !.pushed = p.pushed, !.len0 = p.len0]

\* the layer that receives pointer events: the topmost one with
\* pointerEvents "auto" (active), if its engine exists
Interactive ==
  {c \in 1..Len(cys) :
     /\ cys[c].alive
     /\ \E i \in 1..Len(layers) :
          /\ layers[i].key = cys[c].key
          /\ CyAt(cyByKey, layers[i].key) = c
          /\ layers[i].active
          /\ \A j \in (i+1)..Len(layers) : ~layers[j].active}

\* the Page and the GraphStage after their first render
StageInit ==
  /\ focusStack = <<>>
  /\ error = ""
  /\ graph = RootScope
  /\ layers = <<[key |-> RootKey, graph |-> RootScope, opacity |-> 1, active |-> TRUE]>>
  /\ cyByKey = [k \in {RootKey} |-> 1]
  /\ cameraRef = NoCam
  /\ cys = <<[key |-> RootKey, alive |-> TRUE, cam |-> DefaultCam,
              lay |-> layers, tapTimer |-> NoNode,
              shouldHighlight |-> FALSE, highlighted |-> NoNode]>>
  /\ fits = 0
  /\ procs = <<>>
  /\ now = 0
  /\ show = DefaultShow("baseline")
  /\ autoDefaultsAppliedRef = "baseline"
  /\ selected = NoNode
  /\ highlightPrereqs = FALSE
  /\ called = NoCall

Init ==
  /\ StageInit
  /\ calc = NoCalc

\* ----------------------------------------------- GraphStage.handleEnterFocus
\* clearTapTimer that leaves the timer pending
KeepTapTimer(e) == e
\* clearTapTimer, and `tapTimer = null` of the timeout callback
ClearTapTimer(e) == [e EXCEPT !.tapTimer = NoNode]

\* the stub GraphViewLayer passes as restoreAll: `() => {}`
LayerRestoreAll(hl) == hl
\* the stub GraphViewLayer passes as highlightSelected: `() => {}`
LayerHighlightSelected(hl, id) == hl

\* dbltap on an expandable group node of engine c (events.ts): the pending
\* tap is cleared, the selection is cleared, and the handleEnterFocus
\* closure that was current when the layer mounted is called.
EnterRequest(c, g) ==
  /\ Len(procs) < MaxProcs
  /\ c \in Interactive
  /\ cys' = [cys EXCEPT ![c] = [ClearTapTimer(@) EXCEPT
                                     !.highlighted = LayerRestoreAll(@)]]
  /\ selected' = NoNode
  /\ called' = [NoCall EXCEPT !.handler = "dbltap", !.cy = c,
                              !.clearTimeout = cys[c].tapTimer, !.unselect = TRUE,
                              !.onSelect = NoNode,
                              !.restoreAll = TRUE, !.onEnterFocus = g]
  /\ LET lay == cys[c].lay
         currentTop == Last(lay)
         parentCy == CyAt(cyByKey, currentTop.key)
     IN /\ parentCy # 0
        /\ cys[parentCy].alive
        /\ LET newStack == PushEntry(focusStack, NewEntry(g, cys[parentCy].cam))
           IN /\ focusStack' = newStack
              /\ FocusEffect(newStack, graph)
              /\ procs' = Append(procs,
                   [IdleProc EXCEPT !.kind = "enter", !.pc = "fetch", !.cy = parentCy,
                                    !.gid = g, !.lay = lay, !.t0 = now,
                                    !.pushed = (newStack # focusStack),
                                    !.len0 = Len(focusStack)])
  /\ UNCHANGED <<calc, highlightPrereqs, layers, cyByKey, cameraRef, fits, now>>

\* apiGet of onEnterFocus rejects: handleEnterFocus ends with the rejection
EnterFetchFail(p) ==
  /\ procs[p].kind = "enter" /\ procs[p].pc = "fetch"
  /\ procs' = [procs EXCEPT ![p] = Finished(procs[p], "failed")]
  /\ called' = NoCall
  /\ UNCHANGED <<calc, selected, highlightPrereqs, focusStack, error, graph, show, autoDefaultsAppliedRef, layers, cyByKey, cameraRef, cys, fits, now>>

\* the clock after a network round trip: later than at the request
ClockAfter(t0) == {t \in {now, now + 1} : t > t0}

\* targetZoom = Math.min(anchorZoom * 1.4, 3)
EnterTargetZoom(z) == Min((z * 14) \div 10, MaxZoomIn)

\* nextLayers of enterFocusTransition
EnterNextLayers(lay, k, g) ==
  Append([i \in 1..Len(lay) |-> [lay[i] EXCEPT !.active = FALSE, !.opacity = 1]],
         [key |-> k, graph |-> g, opacity |-> 0, active |-> TRUE])

\* apiGet resolves; enterFocusTransition runs up to its first await:
\* reads the parent camera, mounts the incoming layer
EnterMount(p) ==
  /\ procs[p].kind = "enter" /\ procs[p].pc = "fetch"
  /\ \E t \in ClockAfter(procs[p].t0) :
       LET pr == procs[p]
           k == [kind |-> "focus", rid |-> pr.gid, t |-> t]
           nextLayers == EnterNextLayers(pr.lay, k, pr.gid)
           anchor == cys[pr.cy].cam
       IN /\ now' = t
          /\ \E att \in SUBSET Mounted(layers, nextLayers) :
               /\ layers' = nextLayers
               /\ cys' = CysAfterCommit(cys, cyByKey, layers, nextLayers, att)
               /\ cyByKey' = ByKeyAfterCommit(cys, cyByKey, layers, nextLayers, att)
          /\ procs' = [procs EXCEPT ![p] =
               [pr EXCEPT !.pc = "wait", !.key = k, !.frames = 0, !.lay = <<>>,
                          !.hasTgt = TRUE,
                          !.tgt = [pan |-> anchor.pan, zoom |-> EnterTargetZoom(anchor.zoom)]]]
  /\ called' = NoCall
  /\ UNCHANGED <<calc, selected, highlightPrereqs, fits, focusStack, error, graph, show, autoDefaultsAppliedRef, cameraRef>>

\* cy.stop() on engine c: animations running on it never complete
StopAnims(ps, c, self) ==
  [q \in 1..Len(ps) |->
     IF q # self /\ ps[q].pc = "anim" /\ ps[q].cy = c
       THEN [ps[q] EXCEPT !.pc = "stalled"]
       ELSE ps[q]]

\* crossfade of enterFocusTransition: last layer in, every other out
EnterCrossfade(ls) ==
  [i \in 1..Len(ls) |->
     IF i = Len(ls) THEN [ls[i] EXCEPT !.opacity = 1]
                    ELSE [ls[i] EXCEPT !.opacity = 0]]

\* mutant: the abort path rolls the push back
EnterAbortStackRollback(stack) == IF Len(stack) = 0 THEN stack ELSE SubSeq(stack, 1, Len(stack) - 1)

\* `if (!incomingCy) return;` : the abort path leaves the focus stack as it is
EnterAbortStack(stack) == stack

\* one animation frame of waitForCy, and what follows it without an await
EnterPoll(p) ==
  /\ procs[p].kind = "enter" /\ procs[p].pc = "wait"
  /\ LET pr == procs[p]
         incomingCy == CyAt(cyByKey, pr.key)
     IN IF incomingCy # 0 /\ cys[incomingCy].alive
          THEN /\ procs' = [StopAnims(procs, pr.cy, p) EXCEPT ![p] =
                              [pr EXCEPT !.pc = "anim"]]
               /\ layers' = EnterCrossfade(layers)
               /\ UNCHANGED <<cys, cyByKey, focusStack, error, graph, show, autoDefaultsAppliedRef>>
          ELSE IF pr.frames + 1 >= MaxFrames
                 THEN \* waitForCy returned null
                      /\ procs' = [procs EXCEPT ![p] = Finished(pr, "aborted")]
                      /\ focusStack' = EnterAbortStack(focusStack)
                      /\ FocusEffect(focusStack', graph)
                      /\ UNCHANGED <<layers, cys, cyByKey>>
                 ELSE /\ procs' = [procs EXCEPT ![p].frames = pr.frames + 1]
                      /\ UNCHANGED <<layers, cys, cyByKey, focusStack, error, graph, show, autoDefaultsAppliedRef>>
  /\ called' = NoCall
  /\ UNCHANGED <<calc, selected, highlightPrereqs, fits, cameraRef, now>>

\* the camera at the last frame: an animation given {pan, zoom} ends at both,
\* one given {zoom} only (exit without targetCamera) leaves the pan alone
FinalCam(pr, cur) == IF pr.hasTgt THEN pr.tgt ELSE [pan |-> cur.pan, zoom |-> pr.tgt.zoom]

\* an intermediate camera value of an eased animation toward tgt
MidCam(cur, tgt) == [pan |-> cur.pan, zoom |-> (cur.zoom + tgt.zoom) \div 2]

\* an intermediate frame of the camera animation: step() mirrors it
AnimStep(p) ==
  /\ procs[p].pc = "anim" /\ ~procs[p].stepped
  /\ cys[procs[p].cy].alive
  /\ LET pr == procs[p]
         cam == MidCam(cys[pr.cy].cam, pr.tgt)
         own == [cys EXCEPT ![pr.cy].cam = cam]
     IN /\ cys' = ApplyCamera(own, cyByKey, cam)
        /\ cameraRef' = cam
        /\ procs' = [procs EXCEPT ![p].stepped = TRUE]
  /\ called' = NoCall
  /\ UNCHANGED <<calc, selected, highlightPrereqs, fits, focusStack, error, graph, show, autoDefaultsAppliedRef, layers, cyByKey, now>>

\* cleanup of enterFocusTransition: keep only the incoming layer
EnterKeep(ls, k) ==
  LET kept == SelectSeq(ls, LAMBDA l : l.key = k)
  IN [i \in 1..Len(kept) |-> [kept[i] EXCEPT !.active = TRUE, !.opacity = 1]]

\* the last frame of the camera animation and the code after
\* `await anim.promise("completed")`
EnterComplete(p) ==
  /\ procs[p].kind = "enter" /\ procs[p].pc = "anim"
  /\ cys[procs[p].cy].alive
  /\ LET pr == procs[p]
         cam == FinalCam(pr, cys[pr.cy].cam)
         own == [cys EXCEPT ![pr.cy].cam = cam]
         mirrored == ApplyCamera(own, cyByKey, cam)
         final == EnterKeep(layers, pr.key)
     IN /\ cameraRef' = cam
        /\ layers' = final
        /\ cys' = CysAfterCommit(mirrored, cyByKey, layers, final, {})
        /\ cyByKey' = ByKeyAfterCommit(mirrored, cyByKey, layers, final, {})
        /\ procs' = [procs EXCEPT ![p] = Finished(pr, "done")]
  /\ called' = NoCall
  /\ UNCHANGED <<calc, selected, highlightPrereqs, fits, focusStack, error, graph, show, autoDefaultsAppliedRef, now>>

\* ------------------------------------------------------------ Page.popFocus
\* the back action: popFocus of the latest render, up to `await apiGet`;
\* it clears the selection first
BackRequest ==
  /\ Len(procs) < MaxProcs
  /\ Len(focusStack) > 0
  /\ LET leaving == Last(focusStack)
         target == IF Len(focusStack) >= 2 THEN focusStack[Len(focusStack) - 1].id
                                           ELSE RootScope
     IN procs' = Append(procs,
          [IdleProc EXCEPT !.kind = "exit", !.pc = "fetch", !.gid = target, !.t0 = now,
                           !.hasTgt = leaving.hasAnchor,
                           !.tgt = [pan |-> leaving.pan, zoom |-> leaving.zoom],
                           !.len0 = Len(focusStack)])
  /\ selected' = NoNode
  /\ called' = NoCall
  /\ UNCHANGED <<calc, highlightPrereqs, focusStack, error, graph, show, autoDefaultsAppliedRef, layers, cyByKey, cameraRef, cys, fits, now>>

\* apiGet of popFocus rejects: popFocus ends with the rejection
ExitFetchFail(p) ==
  /\ procs[p].kind = "exit" /\ procs[p].pc = "fetch"
  /\ procs' = [procs EXCEPT ![p] = Finished(procs[p], "failed")]
  /\ called' = NoCall
  /\ UNCHANGED <<calc, selected, highlightPrereqs, focusStack, error, graph, show, autoDefaultsAppliedRef, layers, cyByKey, cameraRef, cys, fits, now>>

\* "Now commit nav state": setFocusStack(slice), setGraph(parentGraph)
PopCommit(scope) ==
  /\ focusStack' = PopEntry(focusStack)
  /\ FocusEffect(PopEntry(focusStack), scope)

\* the layer list mounted by exitFocusTransition
ExitNextLayers(ls, k, g) ==
  Append([i \in 1..Len(ls) |-> [ls[i] EXCEPT !.active = FALSE, !.opacity = 1]],
         [key |-> k, graph |-> g, opacity |-> 0, active |-> TRUE])

\* apiGet resolves; GraphStage.exitFocus of the latest render runs, then
\* exitFocusTransition up to its first await
ExitMount(p) ==
  /\ procs[p].kind = "exit" /\ procs[p].pc = "fetch"
  /\ \E t \in ClockAfter(procs[p].t0) :
       LET pr == procs[p]
           childCy == IF Len(layers) > 0 THEN CyAt(cyByKey, Last(layers).key) ELSE 0
           k == [kind |-> "back", rid |-> pr.gid, t |-> t]
           nextLayers == ExitNextLayers(layers, k, pr.gid)
       IN /\ now' = t
          /\ IF childCy = 0 \/ ~cys[childCy].alive
               THEN \* exitFocus returns at once; popFocus goes on
                    /\ PopCommit(pr.gid)
                    /\ procs' = [procs EXCEPT ![p] = Finished(pr, "skipped")]
                    /\ UNCHANGED <<layers, cys, cyByKey>>
               ELSE /\ \E att \in SUBSET Mounted(layers, nextLayers) :
                         /\ layers' = nextLayers
                         /\ cys' = CysAfterCommit(cys, cyByKey, layers, nextLayers, att)
                         /\ cyByKey' = ByKeyAfterCommit(cys, cyByKey, layers, nextLayers, att)
                    /\ procs' = [procs EXCEPT ![p] =
                         [pr EXCEPT !.pc = "wait", !.key = k, !.cy = childCy, !.frames = 0]]
                    /\ UNCHANGED <<focusStack, error, graph, show, autoDefaultsAppliedRef>>
  /\ called' = NoCall
  /\ UNCHANGED <<calc, selected, highlightPrereqs, cameraRef, fits>>

\* crossfade of exitFocusTransition: parent in, every other layer out
ExitCrossfade(ls, k) ==
  [i \in 1..Len(ls) |->
     IF ls[i].key = k THEN [ls[i] EXCEPT !.opacity = 1, !.active = TRUE]
                      ELSE [ls[i] EXCEPT !.opacity = 0, !.active = FALSE]]

\* one animation frame of waitForCy, and what follows it without an await
ExitPoll(p) ==
  /\ procs[p].kind = "exit" /\ procs[p].pc = "wait"
  /\ LET pr == procs[p]
         parentCy == CyAt(cyByKey, pr.key)
         cam == cys[pr.cy].cam
     IN IF parentCy # 0 /\ cys[parentCy].alive
          THEN \* updateCamera(childCy.pan(), childCy.zoom()); childCy.stop(); play
               /\ cys' = ApplyCamera(cys, cyByKey, cam)
               /\ cameraRef' = cam
               /\ procs' = [StopAnims(procs, pr.cy, p) EXCEPT ![p] =
                    [pr EXCEPT !.pc = "anim",
                               !.tgt = IF pr.hasTgt THEN pr.tgt ELSE cam]]
               /\ layers' = ExitCrossfade(layers, pr.key)
               /\ UNCHANGED <<focusStack, error, graph, show, autoDefaultsAppliedRef, cyByKey>>
          ELSE IF pr.frames + 1 >= MaxFrames
                 THEN \* waitForCy returned null; popFocus goes on
                      /\ PopCommit(pr.gid)
                      /\ procs' = [procs EXCEPT ![p] = Finished(pr, "aborted")]
                      /\ UNCHANGED <<layers, cys, cyByKey, cameraRef>>
                 ELSE /\ procs' = [procs EXCEPT ![p].frames = pr.frames + 1]
                      /\ UNCHANGED <<focusStack, error, graph, show, autoDefaultsAppliedRef, layers, cys,
                                     cyByKey, cameraRef>>
  /\ called' = NoCall
  /\ UNCHANGED <<calc, selected, highlightPrereqs, now, fits>>

\* cleanup of exitFocusTransition: keep only the parent layer
ExitKeep(ls, k) ==
  LET kept == SelectSeq(ls, LAMBDA l : l.key = k)
  IN [i \in 1..Len(kept) |-> [kept[i] EXCEPT !.opacity = 1, !.active = TRUE]]

\* the last frame of the camera animation, the cleanup after
\* `await anim.promise("completed")`, and the rest of popFocus
ExitComplete(p) ==
  /\ procs[p].kind = "exit" /\ procs[p].pc = "anim"
  /\ cys[procs[p].cy].alive
  /\ LET pr == procs[p]
         cam == FinalCam(pr, cys[pr.cy].cam)
         own == [cys EXCEPT ![pr.cy].cam = cam]
         mirrored == ApplyCamera(own, cyByKey, cam)
         final == ExitKeep(layers, pr.key)
     IN /\ cameraRef' = cam
        /\ layers' = final
        /\ cys' = CysAfterCommit(mirrored, cyByKey, layers, final, {})
        /\ cyByKey' = ByKeyAfterCommit(mirrored, cyByKey, layers, final, {})
        /\ PopCommit(pr.gid)
        /\ procs' = [procs EXCEPT ![p] = Finished(pr, "done")]
  /\ called' = NoCall
  /\ UNCHANGED <<calc, selected, highlightPrereqs, now, fits>>

\* ------------------------------------------------------------- Page, rest
\* the group ids of the boundary hints of a snapshot: groups outside the
\* focus that hold the far end of a crossing edge
HintGroups == Groups

\* BoundaryPanel onJump: pushFocus({id: groupId}), which clears the selection
Jump(g) ==
  /\ Len(focusStack) < MaxStack
  /\ PushEntry(focusStack, JumpEntry(g)) # focusStack
  /\ focusStack' = PushEntry(focusStack, JumpEntry(g))
  /\ FocusEffect(PushEntry(focusStack, JumpEntry(g)), graph)
  /\ selected' = NoNode
  /\ called' = NoCall
  /\ UNCHANGED <<calc, highlightPrereqs, layers, cyByKey, cameraRef, cys, fits, procs, now>>

\* an engine animates its own camera to fit the visible elements: on
\* layoutstop of runRelayout after its mount, or from the toolbar
LayoutFit(c, cam) ==
  /\ fits < MaxFits
  /\ cys[c].alive
  /\ cys' = [cys EXCEPT ![c].cam = cam]
  /\ fits' = fits + 1
  /\ called' = NoCall
  /\ UNCHANGED <<calc, selected, highlightPrereqs, focusStack, error, graph, show, autoDefaultsAppliedRef, layers, cyByKey, cameraRef, procs, now>>

\* the flags whose mode default differs between baseline and focus
ToggledFlags == {"recommended", "related"}

\* Sidebar onChangeRequires / onChangeRecommended / onChangeRelated
Toggle(f, v) ==
  /\ show[f] # v
  /\ show' = [show EXCEPT ![f] = v]
  /\ called' = NoCall
  /\ UNCHANGED <<calc, selected, highlightPrereqs, focusStack, error, graph, autoDefaultsAppliedRef, layers, cyByKey,
                 cameraRef, cys, fits, procs, now>>

Next ==
  \/ \E c \in 1..Len(cys), g \in Groups : EnterRequest(c, g)
  \/ \E p \in 1..Len(procs) : EnterFetchFail(p)
  \/ \E p \in 1..Len(procs) : EnterMount(p)
  \/ \E p \in 1..Len(procs) : EnterPoll(p)
  \/ \E p \in 1..Len(procs) : AnimStep(p)
  \/ \E p \in 1..Len(procs) : EnterComplete(p)
  \/ BackRequest
  \/ \E p \in 1..Len(procs) : ExitFetchFail(p)
  \/ \E p \in 1..Len(procs) : ExitMount(p)
  \/ \E p \in 1..Len(procs) : ExitPoll(p)
  \/ \E p \in 1..Len(procs) : ExitComplete(p)
  \/ \E g \in HintGroups : Jump(g)
  \/ \E c \in 1..Len(cys), cam \in FitCams : LayoutFit(c, cam)
  \/ \E f \in ToggledFlags, v \in BOOLEAN : Toggle(f, v)

Spec == Init /\ [][Next]_vars

\* ================================================== interaction dispatcher
\* installGraphEvents on the engine of a GraphViewLayer: one tapTimer per
\* engine, handlers for tap on a node, dbltap on a node and tap on the
\* background, and the timeout callback of the debounced tap.
TapNodes == {"G", "n"}                \* the nodes single taps are made on

\* `node.kind === "group" && node.has_children`, with the test left out
CanEnterFocusAny(n) == TRUE
\* `node.kind === "group" && node.has_children`
CanEnterFocus(n) == NodeKind(n) = "group" /\ NodeHasChildren(n)

\* cy.on("tap", "node"): clearTapTimer, then the selection is scheduled
TapNode(c, n) ==
  /\ c \in Interactive
  /\ cys' = [cys EXCEPT ![c] = [ClearTapTimer(@) EXCEPT !.tapTimer = n]]
  /\ called' = [NoCall EXCEPT !.handler = "tap", !.cy = c,
                              !.clearTimeout = cys[c].tapTimer]
  /\ UNCHANGED <<calc, selected, highlightPrereqs, focusStack, error, graph, show,
                 autoDefaultsAppliedRef, layers, cyByKey, cameraRef, fits, procs, now>>

\* the timeout callback of engine c, TAP_DELAY_MS after the tap; nothing
\* cancels it when the layer is unmounted
TapTimeout(c) ==
  /\ cys[c].tapTimer # NoNode
  /\ LET n == cys[c].tapTimer
         sh == cys[c].shouldHighlight
     IN /\ cys' = [cys EXCEPT ![c] =
               [ClearTapTimer(@) EXCEPT
                  !.shouldHighlight = cys[c].alive /\ sh,
                  !.highlighted =
                     IF sh THEN LayerHighlightSelected(LayerRestoreAll(@), n) ELSE @]]
        /\ selected' = n
        /\ called' = [NoCall EXCEPT !.handler = "timeout", !.cy = c, !.unselect = TRUE,
                                    !.select = n, !.onSelect = n,
                                    !.restoreAll = sh,
                                    !.highlightSelected = IF sh THEN n ELSE NoNode]
  /\ UNCHANGED <<calc, highlightPrereqs, focusStack, error, graph, show,
                 autoDefaultsAppliedRef, layers, cyByKey, cameraRef, fits, procs, now>>

\* cy.on("dbltap", "node") on a node that is no expandable group: only
\* clearTapTimer
DblTapOther(c, n) ==
  /\ c \in Interactive
  /\ cys' = [cys EXCEPT ![c] = ClearTapTimer(@)]
  /\ called' = [NoCall EXCEPT !.handler = "dbltap", !.cy = c,
                              !.clearTimeout = cys[c].tapTimer]
  /\ UNCHANGED <<calc, selected, highlightPrereqs, focusStack, error, graph, show,
                 autoDefaultsAppliedRef, layers, cyByKey, cameraRef, fits, procs, now>>

\* cy.on("dbltap", "node")
DblTap(c, n) ==
  IF CanEnterFocus(n) THEN EnterRequest(c, n) ELSE DblTapOther(c, n)

\* a background handler that neither unselects nor calls out
BackgroundCallsNothing(c) ==
  [NoCall EXCEPT !.handler = "background", !.cy = c, !.clearTimeout = cys[c].tapTimer]
\* the calls of the background handler: clearTapTimer, unselect,
\* onSelect(null), restoreAll
BackgroundCalls(c) ==
  [NoCall EXCEPT !.handler = "background", !.cy = c, !.clearTimeout = cys[c].tapTimer,
                 !.unselect = TRUE, !.onSelect = NoNode, !.restoreAll = TRUE]

\* cy.on("tap") with evt.target === cy: a tap on the background
TapBackground(c) ==
  /\ c \in Interactive
  /\ cys' = [cys EXCEPT ![c] = [ClearTapTimer(@) EXCEPT
                                     !.highlighted = LayerRestoreAll(@)]]
  /\ called' = BackgroundCalls(c)
  /\ selected' = IF called'.onSelect = "-" THEN selected ELSE called'.onSelect
  /\ UNCHANGED <<calc, highlightPrereqs, focusStack, error, graph, show,
                 autoDefaultsAppliedRef, layers, cyByKey, cameraRef, fits, procs, now>>

\* Sidebar onToggleHighlightPrereqs; the click is taken outside the debounce
\* window of a tap
ToggleHighlight(v) ==
  /\ highlightPrereqs # v
  /\ \A c \in 1..Len(cys) : cys[c].tapTimer = NoNode
  /\ highlightPrereqs' = v
  /\ called' = NoCall
  /\ UNCHANGED <<calc, selected, focusStack, error, graph, show,
                 autoDefaultsAppliedRef, layers, cyByKey, cameraRef, cys, fits, procs, now>>

\* the pointer gestures, the highlight toggle, and the focus requests with
\* the mounts they lead to (the rest of a transition is in Next)
NextEvents ==
  \/ \E c \in 1..Len(cys), n \in TapNodes : TapNode(c, n)
  \/ \E c \in 1..Len(cys) : TapTimeout(c)
  \/ \E c \in 1..Len(cys), n \in Nodes : DblTap(c, n)
  \/ \E c \in 1..Len(cys) : TapBackground(c)
  \/ \E v \in BOOLEAN : ToggleHighlight(v)
  \/ \E p \in 1..Len(procs) : EnterMount(p)
  \/ \E g \in HintGroups : Jump(g)

SpecEvents == Init /\ [][NextEvents]_vars

\* ======================================================= visibility flags
\* The page's three visibility flags under pushes, pops and sidebar toggles,
\* with the last step on record: `step` is "flip" when the step changed the
\* mode, "move" when it changed the focus stack within a mode, "toggle" for a
\* sidebar toggle; `was` is showRequires before the step.
AllFlags == {"requires", "recommended", "related"}
ModeOf(stack) == IF Len(stack) > 0 THEN "focus" ELSE "baseline"

\* the autoDefaults effect in the render after the focus stack became newStack
FlagsAfter(c, newStack) ==
  LET mode == ModeOf(newStack)
  IN IF FocusIdOf(newStack) # FocusIdOf(c.stack) /\ ~AutoDefaultsSkip(c.applied, mode)
       THEN [c EXCEPT !.stack = newStack, !.show = DefaultShow(mode), !.applied = mode]
       ELSE [c EXCEPT !.stack = newStack]

StepKind(old, new) ==
  IF ModeOf(old) # ModeOf(new) THEN "flip" ELSE "move"

\* the page after its first render: the effect has applied the baseline
InitFlags ==
  /\ StageInit
  /\ calc = [fn |-> "flags", stack |-> <<>>, applied |-> "baseline",
             show |-> DefaultShow("baseline"), step |-> "none",
             was |-> DefaultShow("baseline").requires]

\* pushFocus (a boundary-hint jump) / onDidEnterFocus (a drill)
FlagsPush(e) ==
  /\ Len(calc.stack) <= MaxStack
  /\ LET newStack == PushEntry(calc.stack, e)
     IN /\ newStack # calc.stack
        /\ calc' = [FlagsAfter(calc, newStack) EXCEPT
                      !.step = StepKind(calc.stack, newStack),
                      !.was = calc.show.requires]
  /\ UNCHANGED stageVars

\* popFocus: setFocusStack((s) => s.slice(0, -1))
FlagsPop ==
  /\ Len(calc.stack) > 0
  /\ LET newStack == PopEntry(calc.stack)
     IN calc' = [FlagsAfter(calc, newStack) EXCEPT
                   !.step = StepKind(calc.stack, newStack),
                   !.was = calc.show.requires]
  /\ UNCHANGED stageVars

\* Sidebar onChangeRequires / onChangeRecommended / onChangeRelated
FlagsToggle(f, v) ==
  /\ calc.show[f] # v
  /\ calc' = [calc EXCEPT !.show[f] = v, !.step = "toggle",
                          !.was = calc.show.requires]
  /\ UNCHANGED stageVars

NextFlags ==
  \/ \E g \in Groups : \E e \in {JumpEntry(g), NewEntry(g, DefaultCam)} : FlagsPush(e)
  \/ FlagsPop
  \/ \E f \in AllFlags, v \in BOOLEAN : FlagsToggle(f, v)

SpecFlags == InitFlags /\ [][NextFlags]_vars

\* ======================================================== edge visibility
\* The class "hidden" on the edges of the layers' engines, against the
\* page's flags. `top` is the engine of the layer on display, `incoming` the
\* engine of the layer a transition has mounted; each is the set of edge
\* classes that carry "hidden". `cyRef` names the engine cyRef.current holds.
NoEngine == [mounted |-> FALSE, hidden |-> {}]
\* cytoscape({container, elements, ...}): no element has the class "hidden"
FreshEngine == [mounted |-> TRUE, hidden |-> {}]

\* applyEdgeVisibility(cy, {showRequires, showRecommended, showRelated})
EdgeVisibility(flags) == {f \in AllFlags : ~flags[f]}

\* the effect with deps [showRequires, showRecommended, showRelated]: it runs
\* in the render after a flag changed, on the engine cyRef.current holds then
VisibilityEffect(c, flags) ==
  IF flags = c.show \/ c.cyRef = "null" THEN [c EXCEPT !.show = flags]
  ELSE IF c.cyRef = "top"
    THEN [c EXCEPT !.show = flags, !.top.hidden = EdgeVisibility(flags)]
    ELSE [c EXCEPT !.show = flags, !.incoming.hidden = EdgeVisibility(flags)]

\* a change of the focus stack: the autoDefaults effect, then the visibility
\* effect of the same render
VisAfter(c, newStack) ==
  LET d == FlagsAfter(c, newStack)
  IN VisibilityEffect([d EXCEPT !.show = c.show], d.show)

\* the page before its first snapshot arrived: GraphStage is not rendered,
\* the autoDefaults effect has set the baseline flags, cyRef.current is null
InitVisibility ==
  /\ StageInit
  /\ calc = [fn |-> "visibility", stack |-> <<>>, applied |-> "baseline",
             show |-> DefaultShow("baseline"), phase |-> "loading",
             top |-> NoEngine, incoming |-> NoEngine, cyRef |-> "null"]

\* setGraph(snapshot): GraphStage mounts the root layer, which is active, so
\* its mount effect calls onCyReady(cy)
VisLoad ==
  /\ calc.phase = "loading"
  /\ calc' = [calc EXCEPT !.phase = "idle", !.top = FreshEngine, !.cyRef = "top"]
  /\ UNCHANGED stageVars

\* Sidebar onChangeRequires / onChangeRecommended / onChangeRelated
VisToggle(f, v) ==
  /\ calc.phase # "loading"
  /\ calc.show[f] # v
  /\ calc' = VisibilityEffect(calc, [calc.show EXCEPT ![f] = v])
  /\ UNCHANGED stageVars

\* BoundaryPanel onJump: pushFocus
VisJump(g) ==
  /\ calc.phase # "loading"
  /\ Len(calc.stack) < MaxStack
  /\ PushEntry(calc.stack, JumpEntry(g)) # calc.stack
  /\ calc' = VisAfter(calc, PushEntry(calc.stack, JumpEntry(g)))
  /\ UNCHANGED stageVars

\* handleEnterFocus up to its fetch: onDidEnterFocus pushes the entry
VisEnterRequest(g) ==
  /\ calc.phase = "idle"
  /\ Len(calc.stack) <= MaxStack
  /\ calc' = [VisAfter(calc, PushEntry(calc.stack, NewEntry(g, DefaultCam)))
                EXCEPT !.phase = "enter"]
  /\ UNCHANGED stageVars

\* setLayers(nextLayers): the incoming layer is mounted with active: true,
\* so it is given onCyReady and its mount effect sets cyRef.current
VisMount ==
  /\ calc.phase \in {"enter", "exit"} /\ ~calc.incoming.mounted
  /\ calc' = [calc EXCEPT !.incoming = FreshEngine, !.cyRef = "incoming"]
  /\ UNCHANGED stageVars

\* enterFocusTransition after anim.promise("completed"): only the incoming
\* layer is kept; onTopReady(incomingCy)
VisEnterComplete ==
  /\ calc.phase = "enter" /\ calc.incoming.mounted
  /\ calc' = [calc EXCEPT !.phase = "idle", !.top = calc.incoming,
                          !.incoming = NoEngine, !.cyRef = "top"]
  /\ UNCHANGED stageVars

\* popFocus up to its await of exitFocus
VisBackRequest ==
  /\ calc.phase = "idle"
  /\ Len(calc.stack) > 0
  /\ calc' = [calc EXCEPT !.phase = "exit"]
  /\ UNCHANGED stageVars

\* exitFocusTransition after anim.promise("completed"): only the parent layer
\* is kept; onTopReady(parentCy); then popFocus pops the stack
VisExitComplete ==
  /\ calc.phase = "exit" /\ calc.incoming.mounted
  /\ LET c == [calc EXCEPT !.phase = "idle", !.top = calc.incoming,
                           !.incoming = NoEngine, !.cyRef = "top"]
     IN calc' = VisAfter(c, PopEntry(calc.stack))
  /\ UNCHANGED stageVars

NextVisibility ==
  \/ VisLoad
  \/ \E f \in AllFlags, v \in BOOLEAN : VisToggle(f, v)
  \/ \E g \in HintGroups : VisJump(g)
  \/ \E g \in Groups : VisEnterRequest(g)
  \/ VisMount
  \/ VisEnterComplete
  \/ VisBackRequest
  \/ VisExitComplete

SpecVisibility == InitVisibility /\ [][NextVisibility]_vars

\* ====================================================== animation timing
\* One transition from the moment its camera animation and its crossfade
\* start (anim.play() and the setLayers of the crossfade run back to back)
\* to the moment every animation has ended, on a clock of milliseconds.
EnterCameraMs == 700       \* duration of the camera animation of enterFocusTransition
ExitCameraMs == 650        \* duration of the camera animation of exitFocusTransition
CrossfadeMs == 300         \* transition: "opacity 300ms ease"
ExpandMs == 500            \* animationDuration of the dagre expansion (enter only)
\* a crossfade longer than either camera animation; the code has none
SlowCrossfadeMs == 900
\* a camera animation shorter than the crossfade; the code has none
ShortCameraMs(kind) == 200
CameraMs(kind) == IF kind = "enter" THEN EnterCameraMs ELSE ExitCameraMs
NotCleaned == [done |-> FALSE, at |-> 0, fadeDone |-> FALSE]

InitTiming ==
  /\ StageInit
  /\ calc \in {[fn |-> "timing", kind |-> k, fadeMs |-> f, t |-> 0,
                 cameraDone |-> FALSE, fadeDone |-> FALSE,
                 expandDone |-> (k = "exit"), cleaned |-> NotCleaned] :
                k \in {"enter", "exit"}, f \in {CrossfadeMs, SlowCrossfadeMs}}

\* an animation that has reached its duration ends before the clock moves on
Due ==
  \/ ~calc.cameraDone /\ calc.t >= CameraMs(calc.kind)
  \/ ~calc.fadeDone /\ calc.t >= calc.fadeMs
  \/ ~calc.expandDone /\ calc.t >= ExpandMs

\* 10 ms pass
TimePasses ==
  /\ ~Due
  /\ ~(calc.cameraDone /\ calc.fadeDone /\ calc.expandDone)
  /\ calc' = [calc EXCEPT !.t = @ + 10]
  /\ UNCHANGED stageVars

\* anim.promise("completed") resolves, and the code after the await runs:
\* setLayers(keep only the incoming layer); onTopReady
CameraCompletes ==
  /\ ~calc.cameraDone /\ calc.t >= CameraMs(calc.kind)
  /\ calc' = [calc EXCEPT !.cameraDone = TRUE,
                          !.cleaned = [done |-> TRUE, at |-> calc.t,
                                        fadeDone |-> calc.fadeDone]]
  /\ UNCHANGED stageVars

\* the CSS transition of the layers' opacity ends
CrossfadeCompletes ==
  /\ ~calc.fadeDone /\ calc.t >= calc.fadeMs
  /\ calc' = [calc EXCEPT !.fadeDone = TRUE]
  /\ UNCHANGED stageVars

\* the animated dagre layout of the incoming layer ends
ExpandCompletes ==
  /\ ~calc.expandDone /\ calc.t >= ExpandMs
  /\ calc' = [calc EXCEPT !.expandDone = TRUE]
  /\ UNCHANGED stageVars

NextTiming ==
  \/ TimePasses
  \/ CameraCompletes
  \/ CrossfadeCompletes
  \/ ExpandCompletes

SpecTiming == InitTiming /\ [][NextTiming]_vars

\* ================================================================ debounce
\* The single-tap timer of installGraphEvents against the timers of the
\* window: `tapTimer` is the handle the closure keeps, `timers` are the
\* callbacks setTimeout has scheduled and that neither ran nor were cleared.
\* All timers have the delay TAP_DELAY_MS, so they run in the order they were
\* set.
MaxBurst == 3                          \* node taps of one burst
Dispatchers == {1, 2}                  \* two engines, each with its own closure
NoTimer == 0                           \* tapTimer === null
IdleDispatcher ==
  [tapTimer |-> NoTimer, timers |-> {}, burst |-> <<>>, emitted |-> <<>>]

\* clearTapTimer without the clearTimeout
ClearPendingNot(d) == d

\* if (tapTimer != null) { window.clearTimeout(tapTimer); tapTimer = null; }
ClearPending(d) ==
  IF d.tapTimer # NoTimer
    THEN [d EXCEPT !.timers = {t \in @ : t.id # d.tapTimer}, !.tapTimer = NoTimer]
    ELSE d

\* the handle window.setTimeout returns: a number no pending timer has
FreshTimer(d) ==
  CHOOSE i \in 1..(MaxBurst + 1) :
    /\ \A t \in d.timers : t.id < i
    /\ \A j \in 1..(i - 1) : \E t \in d.timers : t.id >= j

InitDebounce ==
  /\ StageInit
  /\ calc = [fn |-> "debounce", d |-> [c \in Dispatchers |-> IdleDispatcher]]

\* cy.on("tap", "node"): clearTapTimer(); tapTimer = window.setTimeout(...).
\* The tap belongs to the burst of the tap before it when a timer of that
\* burst has yet to run; otherwise it starts a burst.
DebounceTap(c, n) ==
  /\ Len(calc.d[c].burst) < MaxBurst
  /\ LET d0 == calc.d[c]
         cont == d0.timers # {}
         d1 == ClearPending(d0)
         id == FreshTimer(d1)
     IN calc' = [calc EXCEPT !.d[c] =
          [tapTimer |-> id,
           timers |-> d1.timers \cup {[id |-> id, node |-> n]},
           burst |-> IF cont THEN Append(d0.burst, n) ELSE <<n>>,
           emitted |-> IF cont THEN d0.emitted ELSE <<>>]]
  /\ UNCHANGED stageVars

\* the oldest scheduled callback runs: tapTimer = null; ...; onSelect(node)
DebounceTimeout(c) ==
  /\ calc.d[c].timers # {}
  /\ LET d0 == calc.d[c]
         t == CHOOSE x \in d0.timers : \A y \in d0.timers : x.id <= y.id
     IN calc' = [calc EXCEPT !.d[c] =
          [d0 EXCEPT !.tapTimer = NoTimer, !.timers = @ \ {t},
                     !.emitted = Append(@, t.node)]]
  /\ UNCHANGED stageVars

\* cy.on("dbltap", "node") and cy.on("tap") on the background:
\* clearTapTimer(); the burst ends without a selection
DebounceCancel(c) ==
  /\ calc.d[c].timers # {}
  /\ LET d1 == ClearPending(calc.d[c])
     IN calc' = [calc EXCEPT !.d[c] =
          IF d1.timers = {} THEN IdleDispatcher ELSE d1]
  /\ UNCHANGED stageVars

NextDebounce ==
  \/ \E c \in Dispatchers, n \in Nodes : DebounceTap(c, n)
  \/ \E c \in Dispatchers : DebounceTimeout(c)
  \/ \E c \in Dispatchers : DebounceCancel(c)

SpecDebounce == InitDebounce /\ [][NextDebounce]_vars

\* ============================================================= projection
\* GraphViewLayer `elements`: the bundled abstract edges of a snapshot.
\* Identifiers are tokens; a string built from them is the sequence of its
\* tokens and separators.
NullRank == -1                        \* rank null / undefined
Undefined == ""                       \* Map.get of a missing key; falsy
AbstractNodes == {"A", "B", "C"}      \* graph.abstract_nodes, by id
\* graph.impl_nodes
ImplNodes == <<[id |-> "a1", abstract_id |-> "A"], [id |-> "a2", abstract_id |-> "A"],
               [id |-> "b1", abstract_id |-> "B"], [id |-> "c1", abstract_id |-> "C"]>>
EdgeTypes == {"requires", "recommended"}
Edge(src, dst, type, rank) ==
  [src_impl_id |-> src, dst_impl_id |-> dst, type |-> type, rank |-> rank]
\* the low-level edges a snapshot is drawn from; "x" is no impl node of it
EdgePool ==
  {Edge("b1", "a1", "recommended", r) : r \in {NullRank, 1, 2}}
    \cup {Edge("b1", "a1", "requires", NullRank), Edge("c1", "a1", "requires", 2),
          Edge("a2", "a1", "requires", NullRank), Edge("x", "a1", "requires", NullRank),
          Edge("a1", "b1", "requires", NullRank)}
EdgeLists == UNION {[1..n -> EdgePool] : n \in 0..MaxEdges}

\* implToAbs.get(id): the last impl node of that id wins
ImplToAbs(id) ==
  LET hits == {i \in 1..Len(ImplNodes) : ImplNodes[i].id = id}
  IN IF hits = {} THEN Undefined
     ELSE ImplNodes[CHOOSE i \in hits : \A j \in hits : j <= i].abstract_id

\* `${srcAbs}::${dstAbs}::${e.type}` and key.split("::")
BundleKey(srcAbs, dstAbs, type) == <<srcAbs, "::", dstAbs, "::", type>>
SplitKey(key) == SelectSeq(key, LAMBDA tok : tok # "::")
\* `bundle-${type}-${source}-${target}`
BundleId(type, source, target) == <<"bundle", "-", type, "-", source, "-", target>>

\* position of a key in the Map (insertion order), 0 when absent
KeyIndex(bundles, key) ==
  IF \E i \in 1..Len(bundles) : bundles[i].key = key
    THEN CHOOSE i \in 1..Len(bundles) : bundles[i].key = key
    ELSE 0

\* mutant: the rank of a bundle is the rank of its first edge
RankMergeFirst(prevMin, rank) == prevMin

\* if (rank != null) prev.rankMin = prev.rankMin == null ? rank : Math.min(prev.rankMin, rank)
RankMerge(prevMin, rank) ==
  IF rank # NullRank
    THEN (IF prevMin = NullRank THEN rank ELSE Min(prevMin, rank))
    ELSE prevMin

\* mutant: an edge inside one abstract node is bundled like any other
SameAbstractKept(srcAbs, dstAbs) == FALSE

\* if (srcAbs === dstAbs) continue;
SameAbstract(srcAbs, dstAbs) == srcAbs = dstAbs

\* mutant: a further edge of a bundle does not raise its count
CountMoreSame(count) == count

\* prev.count += 1
CountMore(count) == count + 1

\* one iteration of `for (const e of graph.edges)`
BundleStep(bundles, e) ==
  LET srcAbs == ImplToAbs(e.src_impl_id)
      dstAbs == ImplToAbs(e.dst_impl_id)
      key == BundleKey(srcAbs, dstAbs, e.type)
      idx == KeyIndex(bundles, key)
  IN IF srcAbs = Undefined \/ dstAbs = Undefined THEN bundles
     ELSE IF SameAbstract(srcAbs, dstAbs) THEN bundles
     ELSE IF idx = 0
       THEN Append(bundles, [key |-> key, count |-> 1, rankMin |-> e.rank])
       ELSE [bundles EXCEPT ![idx] =
               [@ EXCEPT !.count = CountMore(@), !.rankMin = RankMerge(@, e.rank)]]

\* mutant: the Map of bundles survives from one projection to the next
NewBundlesKept(prev) == prev

\* const bundles = new Map()
NewBundles(prev) == <<>>

\* the Map after the loop over graph.edges
Bundles(start, edges) ==
  LET F[i \in 0..Len(edges)] ==
        IF i = 0 THEN start ELSE BundleStep(F[i-1], edges[i])
  IN F[Len(edges)]

\* rank: v.rankMin ?? "" ; the label is the empty string or the number
RankLabel(rankMin) == IF rankMin = NullRank THEN <<>> ELSE <<rankMin>>

\* Array.from(bundles.entries()).map(...): the bundled edge elements
BundleElements(bundles) ==
  [i \in 1..Len(bundles) |->
     LET parts == SplitKey(bundles[i].key)
     IN [id |-> BundleId(parts[3], parts[1], parts[2]),
         source |-> parts[1], target |-> parts[2], type |-> parts[3],
         count |-> bundles[i].count, rank |-> RankLabel(bundles[i].rankMin)]]

\* mutant: a root is a node without outgoing requires edges
ComputeRootsOutgoing(nodes, els, hidden) ==
  {n \in nodes :
     Cardinality({i \in 1..Len(els) :
        els[i].source = n /\ els[i].type = "requires" /\ els[i].type \notin hidden}) = 0}

\* mutant: hidden requires edges still count as incoming
ComputeRootsHidden(nodes, els, hidden) ==
  {n \in nodes :
     Cardinality({i \in 1..Len(els) :
        els[i].target = n /\ els[i].type = "requires"}) = 0}

\* cy.nodes().filter((n) => n.incomers("edge.requires:visible").length === 0)
\* `hidden` holds the edge classes that carry the class "hidden"
ComputeRoots(nodes, els, hidden) ==
  {n \in nodes :
     Cardinality({i \in 1..Len(els) :
        els[i].target = n /\ els[i].type = "requires" /\ els[i].type \notin hidden}) = 0}

\* a snapshot is given; nothing is projected yet
InitProjection ==
  /\ StageInit
  /\ calc \in {[fn |-> "project", edges |-> es, runs |-> 0, bundles |-> <<>>,
                 els |-> <<>>, first |-> <<>>, hidden |-> {}, roots |-> <<>>] :
                es \in EdgeLists}

\* useMemo of `elements` runs (first render of a layer, or a new `graph`
\* object of the same content), and the effect builds an engine from it
Project ==
  /\ calc.runs < MaxRuns
  /\ LET bundles == Bundles(NewBundles(calc.bundles), calc.edges)
         els == BundleElements(bundles)
     IN calc' = [calc EXCEPT !.runs = @ + 1, !.bundles = bundles, !.els = els,
                             !.first = IF calc.runs = 0 THEN els ELSE @,
                             !.hidden = {}, !.roots = <<>>]
  /\ UNCHANGED stageVars

\* applyEdgeVisibility(cy, opts): setHidden("edge.requires", !opts.showRequires)
ApplyEdgeVisibility(showRequires) ==
  /\ calc.runs > 0
  /\ LET hidden == IF showRequires THEN {} ELSE {"requires"}
     IN /\ hidden # calc.hidden
        /\ calc' = [calc EXCEPT !.hidden = hidden]
  /\ UNCHANGED stageVars

\* a layout pass asks for the roots; the last two answers are kept, each
\* with the hidden classes it was computed under
RootsPass ==
  /\ calc.runs > 0
  /\ IF calc.roots = <<>> THEN TRUE ELSE Last(calc.roots).hidden # calc.hidden
  /\ LET r == [hidden |-> calc.hidden,
               roots |-> ComputeRoots(AbstractNodes, calc.els, calc.hidden)]
     IN calc' = [calc EXCEPT !.roots = IF @ = <<>> THEN <<r>> ELSE <<Last(@), r>>]
  /\ UNCHANGED stageVars

NextProjection ==
  \/ Project
  \/ \E b \in BOOLEAN : ApplyEdgeVisibility(b)
  \/ RootsPass

SpecProjection == InitProjection /\ [][NextProjection]_vars

\* ============================================== bundle keys, by character
\* The same key and id strings for abstract ids that are arbitrary strings:
\* a string is the sequence of its characters; "bundle", "requires" and
\* "recommended" stand as one element each, they hold no separator.
MaxIdLen == 2                          \* characters of an abstract id
IdChars == {"a", "-", ":"}
AbstractIds == UNION {[1..n -> IdChars] : n \in 1..MaxIdLen}
Triple(src, dst, type) == [source |-> src, target |-> dst, type |-> type]
\* the (srcAbs, dstAbs, type) of an edge that reaches the Map: both ids are
\* non-empty and differ
Triples ==
  {Triple(src, dst, type) : src \in AbstractIds, dst \in AbstractIds,
                            type \in {<<"requires">>, <<"recommended">>}}
  \ {Triple(id, id, type) : id \in AbstractIds,
                            type \in {<<"requires">>, <<"recommended">>}}

\* `${srcAbs}::${dstAbs}::${e.type}`
BundleKeyChars(srcAbs, dstAbs, type) ==
  srcAbs \o <<":", ":">> \o dstAbs \o <<":", ":">> \o type

\* String.prototype.split("::"): cut at every occurrence of "::", found from
\* the left without overlap
RECURSIVE SplitFrom(_, _, _)
SplitFrom(str, i, cur) ==
  IF i > Len(str) THEN <<cur>>
  ELSE IF i < Len(str) /\ str[i] = ":" /\ str[i + 1] = ":"
    THEN <<cur>> \o SplitFrom(str, i + 2, <<>>)
    ELSE SplitFrom(str, i + 1, Append(cur, str[i]))
SplitChars(key) == SplitFrom(key, 1, <<>>)

\* `bundle-${type}-${source}-${target}`
BundleIdChars(type, source, target) ==
  <<"bundle", "-">> \o type \o <<"-">> \o source \o <<"-">> \o target

\* bundles.set(key, ...) for each triple: the keys of the Map, in insertion
\* order, each with the triple that created it
KeysOfTriples(ts) ==
  LET F[i \in 0..Len(ts)] ==
        IF i = 0 THEN <<>>
        ELSE LET key == BundleKeyChars(ts[i].source, ts[i].target, ts[i].type)
             IN IF \E j \in 1..Len(F[i-1]) : F[i-1][j].key = key
                  THEN F[i-1]
                  ELSE Append(F[i-1], [key |-> key, of |-> ts[i]])
  IN F[Len(ts)]

\* const [source, target, type] = key.split("::"); the element of each key
ElementsOfKeys(ks) ==
  [i \in 1..Len(ks) |->
     LET parts == SplitChars(ks[i].key)
     IN [id |-> BundleIdChars(parts[3], parts[1], parts[2]),
         source |-> parts[1], target |-> parts[2], type |-> parts[3],
         of |-> ks[i].of]]

\* a snapshot whose edges fall into two different triples
InitBundleIds ==
  /\ StageInit
  /\ calc \in {[fn |-> "bundleIds", triples |-> <<t1, t2>>, projected |-> FALSE,
                 els |-> <<>>] : t1 \in Triples, t2 \in Triples}
  /\ calc.triples[1] # calc.triples[2]

\* useMemo of `elements` runs
ProjectTriples ==
  /\ ~calc.projected
  /\ calc' = [calc EXCEPT !.projected = TRUE,
                          !.els = ElementsOfKeys(KeysOfTriples(calc.triples))]
  /\ UNCHANGED stageVars

NextBundleIds == ProjectTriples

SpecBundleIds == InitBundleIds /\ [][NextBundleIds]_vars

\* ============================================================== highlight
\* highlightRequiresChain(cy, startId) on an engine with the given elements.
HNodes == <<"s", "a", "b", "c", "d", "e">>     \* cy.nodes(), in element order
HNodeSet == {HNodes[i] : i \in 1..Len(HNodes)}
HEdge(src, dst, type, hidden) ==
  [source |-> src, target |-> dst, type |-> type, hidden |-> hidden]
\* the edges an engine's element set is drawn from: a fan into s, a chain
\* e -> d -> c -> b -> a -> s, a cycle through s, and edges that are
\* recommended or carry the class "hidden"
HEdgePool ==
  {HEdge(n, "s", "requires", FALSE) : n \in {"a", "b", "c", "d", "e"}}
    \cup {HEdge("b", "a", "requires", FALSE), HEdge("c", "b", "requires", FALSE),
          HEdge("d", "c", "requires", FALSE), HEdge("e", "d", "requires", FALSE),
          HEdge("s", "b", "requires", FALSE),
          HEdge("d", "a", "recommended", FALSE), HEdge("d", "b", "requires", TRUE)}
\* ids a selection can carry; "zz" is no element of the engine, "" is no
\* selection
HStarts == {"s", "a", "zz"}
NoSelection == ""

\* cur.incomers("edge.requires").not(".hidden"), with every edge taken
ReqEdgesAnyEdge(edges, cur) == {e \in edges : e.target = cur}
\* cur.incomers("edge.requires").not(".hidden")
ReqEdges(edges, cur) ==
  {e \in edges : e.target = cur /\ e.type = "requires" /\ ~e.hidden}

\* reqEdges.sources(), in element order
SourcesSeq(reqEdges) ==
  SelectSeq(HNodes, LAMBDA n : \E e \in reqEdges : e.source = n)

\* nextNodes.forEach: visited.add and queue.push of the nodes not yet visited
VisitAll(visited, queue, nextNodes, depth) ==
  LET F[i \in 0..Len(nextNodes)] ==
        IF i = 0 THEN [visited |-> visited, queue |-> queue]
        ELSE IF nextNodes[i] \in F[i-1].visited THEN F[i-1]
        ELSE [visited |-> F[i-1].visited \cup {nextNodes[i]},
              queue |-> Append(F[i-1].queue, [id |-> nextNodes[i], depth |-> depth + 1])]
  IN F[Len(nextNodes)]

\* `if (depth >= MAX_DEPTH) continue;`, with the test left out
DepthNeverReached(depth) == FALSE
\* `if (depth >= MAX_DEPTH) continue;`
DepthReached(depth) == depth >= MAX_DEPTH

\* `if (focus.empty()) return;`, with the test left out
FocusNeverEmpty(startId) == FALSE
\* `if (focus.empty()) return;` of cy.getElementById(startId)
FocusEmpty(startId) == startId \notin HNodeSet

\* style targets of the elements: "plain" is what restoreAll animates to
\* (opacity 1, border-width 1, edge width 2), "dim" opacity 0.35, "path"
\* border-width 2 / edge width 3, "focus" border-width 4
PlainNodes == [n \in HNodeSet |-> "plain"]
PlainEdges(edges) == [e \in edges |-> "plain"]

\* makeRestoreAll that animates nothing
RestoreNothing(c) == c
\* makeRestoreAll(cy)(): every node and every edge is animated to plain
RestoreAll(c) ==
  [c EXCEPT !.nodeStyle = PlainNodes, !.edgeStyle = PlainEdges(c.edges)]

\* a mounted GraphView: engine with its elements, nothing selected, nothing
\* highlighted; the mode is what the page passes
InitHighlight ==
  /\ StageInit
  /\ calc \in {[fn |-> "highlight", edges |-> es, highlightPrereqs |-> hp,
                 selectedId |-> NoSelection, start |-> NoSelection, phase |-> "rest",
                 visited |-> {}, queue |-> <<>>, pathNodes |-> {}, pathEdges |-> {},
                 expanded |-> {}, broke |-> FALSE,
                 nodeStyle |-> PlainNodes, edgeStyle |-> PlainEdges(es)] :
                es \in SUBSET HEdgePool, hp \in BOOLEAN}

\* no highlightRequiresChain call is running
Resting == calc.phase \in {"rest", "noop", "styled"}

\* GraphView's effect on [highlightPrereqs, selectedId]: the page changes the
\* mode or the selection; restoreAll, and with the mode on and a selection the
\* call highlightRef.current(selectedId)
HighlightEffect(hp, sel) ==
  /\ calc.fn = "highlight"
  /\ Resting
  /\ <<hp, sel>> # <<calc.highlightPrereqs, calc.selectedId>>
  /\ LET c == [RestoreAll(calc) EXCEPT !.highlightPrereqs = hp, !.selectedId = sel]
     IN IF ~hp \/ sel = NoSelection
          THEN calc' = [c EXCEPT !.phase = "rest"]
          ELSE calc' = [c EXCEPT !.phase = "idle", !.start = sel]
  /\ UNCHANGED stageVars

\* highlightRequiresChain up to the loop: `if (focus.empty()) return;`
HighlightStart ==
  /\ calc.fn = "highlight"
  /\ calc.phase = "idle"
  /\ IF FocusEmpty(calc.start)
       THEN calc' = [calc EXCEPT !.phase = "noop"]
       ELSE calc' = [calc EXCEPT !.phase = "loop",
                                 !.visited = {calc.start},
                                 !.queue = <<[id |-> calc.start, depth |-> 0]>>,
                                 !.pathNodes = {calc.start},
                                 !.pathEdges = {},
                                 !.expanded = {},
                                 !.broke = FALSE]
  /\ UNCHANGED stageVars

\* one iteration of `while (queue.length > 0)`
HighlightIter ==
  /\ calc.fn = "highlight"
  /\ calc.phase = "loop"
  /\ IF calc.queue = <<>>
       THEN calc' = [calc EXCEPT !.phase = "done"]
       ELSE LET cur == Head(calc.queue)
                rest == Tail(calc.queue)
                reqEdges == ReqEdges(calc.edges, cur.id)
                nextNodes == SourcesSeq(reqEdges)
                after == VisitAll(calc.visited, rest, nextNodes, cur.depth)
            IN IF DepthReached(cur.depth)
                 THEN calc' = [calc EXCEPT !.queue = rest]
               ELSE IF Cardinality(calc.visited) >= MaxVisited
                 THEN calc' = [calc EXCEPT !.queue = rest, !.phase = "done",
                                           !.broke = TRUE]
               ELSE calc' = [calc EXCEPT
                               !.queue = after.queue,
                               !.visited = after.visited,
                               !.pathEdges = @ \cup reqEdges,
                               !.pathNodes = @ \cup {nextNodes[i] : i \in 1..Len(nextNodes)},
                               !.expanded = @ \cup {cur}]
  /\ UNCHANGED stageVars

\* the batch after the loop: the others are dimmed, the path is emphasized,
\* the focus node most
HighlightStyle ==
  /\ calc.fn = "highlight"
  /\ calc.phase = "done"
  /\ calc' = [calc EXCEPT
       !.phase = "styled",
       !.nodeStyle = [n \in HNodeSet |->
                        IF n = calc.start THEN "focus"
                        ELSE IF n \in calc.pathNodes THEN "path" ELSE "dim"],
       !.edgeStyle = [e \in calc.edges |->
                        IF e \in calc.pathEdges THEN "path" ELSE "dim"]]
  /\ UNCHANGED stageVars

NextHighlight ==
  \/ \E hp \in BOOLEAN, sel \in HStarts \cup {NoSelection} : HighlightEffect(hp, sel)
  \/ HighlightStart
  \/ HighlightIter
  \/ HighlightStyle

SpecHighlight == InitHighlight /\ [][NextHighlight]_vars

\* ======================================================= camera mirroring
\* updateCamera(pan, zoom) over the engines registered in cyByKeyRef.
MaxLayers == 3      \* engines registered at once
\* what safeApplyCamera can be handed (its parameter is Core | null): an
\* engine that is live in a connected container, one that is destroyed, one
\* whose container() is null, one whose container is not connected, or null
EngineStates == {"live", "destroyed", "noContainer", "detached", "null"}
MirrorCams == {DefaultCam} \cup FitCams

\* safeApplyCamera without its four early returns
SkipsNever(cy) == FALSE

\* if (!cy) return; if (cy.destroyed()) return;
\* if (!c) return; if (!c.isConnected) return;
Skips(cy) ==
  \/ cy.st = "null"
  \/ cy.st = "destroyed"
  \/ cy.st = "noContainer"
  \/ cy.st = "detached"

\* cy.pan(pan) on null raises a TypeError; the early return keeps it away
Throws(cy) == ~Skips(cy) /\ cy.st = "null"

\* cy.pan(pan); cy.zoom(zoom) unless one of the early returns is taken
SafeApplyCamera(cy, cam) ==
  IF Skips(cy) \/ Throws(cy) THEN cy ELSE [cy EXCEPT !.cam = cam]

\* for (const cy of cyByKeyRef.current.values()) safeApplyCamera(cy, pan, zoom);
\* an exception ends the loop at the engine that raised it
UpdateCameraLoop(cs, cam) ==
  LET thrownAt == {i \in 1..Len(cs) : Throws(cs[i])}
      stop == IF thrownAt = {} THEN Len(cs) + 1
              ELSE CHOOSE i \in thrownAt : \A j \in thrownAt : i <= j
  IN [cys |-> [i \in 1..Len(cs) |->
                 IF i < stop THEN SafeApplyCamera(cs[i], cam) ELSE cs[i]],
      thrown |-> thrownAt # {}]

InitMirror ==
  /\ StageInit
  /\ calc \in {[fn |-> "mirror", runs |-> 0, applied |-> NoCam, thrown |-> FALSE,
                 cys |-> [i \in 1..MaxLayers |-> [st |-> sts[i], cam |-> DefaultCam]]] :
                sts \in [1..MaxLayers -> EngineStates]}

\* updateCamera(pan, zoom): the step callback of a camera animation
UpdateCamera(cam) ==
  /\ calc.runs < MaxRuns
  /\ ~calc.thrown
  /\ LET r == UpdateCameraLoop(calc.cys, cam)
     IN calc' = [calc EXCEPT !.runs = @ + 1, !.applied = cam,
                             !.cys = r.cys, !.thrown = r.thrown]
  /\ UNCHANGED stageVars

\* between two frames a layer is unmounted (cy.destroy()) or its container
\* leaves the document
TearDown(i, st) ==
  /\ calc.cys[i].st = "live"
  /\ calc' = [calc EXCEPT !.cys[i].st = st]
  /\ UNCHANGED stageVars

NextMirror ==
  \/ \E cam \in MirrorCams : UpdateCamera(cam)
  \/ \E i \in 1..MaxLayers, st \in {"destroyed", "detached"} : TearDown(i, st)

SpecMirror == InitMirror /\ [][NextMirror]_vars

\* ================================================================ claims
\* steps of a process, told from its position before and after
Moves(p, from, to) == procs[p].pc = from /\ procs'[p].pc = to
Requested(kind) == Len(procs') = Len(procs) + 1 /\ procs'[Len(procs')].kind = kind
ActiveLayers(ls) == {i \in 1..Len(ls) : ls[i].active}
InTransition == {p \in 1..Len(procs) : procs[p].pc \in {"wait", "anim"}}
AnchorOf(e) == [pan |-> e.pan, zoom |-> e.zoom]
\* the camera of every engine that is mounted and alive
ShownCams(cs, byKey) == {cs[byKey[k]].cam : k \in {k \in DOMAIN byKey : cs[byKey[k]].alive}}

\* C1: when an enter-focus transition completes (camera animation done, cleanup
\* run), the layer list is exactly the incoming child layer, active, opacity 1.
C1_EnterCompleteKeepsChild ==
  [][\A p \in 1..Len(procs) :
       (procs[p].kind = "enter" /\ Moves(p, "anim", "done"))
         => /\ Len(layers') = 1
            /\ layers'[1].key = procs[p].key
            /\ layers'[1].active
            /\ layers'[1].opacity = 1]_vars

\* C2: in every reachable state exactly one mounted layer has active = true.
C2_ExactlyOneActive == Cardinality(ActiveLayers(layers)) = 1

\* C3: at most one transition (enter or exit) has started and not finished.
C3_AtMostOneTransition == Cardinality(InTransition) <= 1

\* C4: the exit-focus that pops an entry pushed by an enter-focus ends with
\* the camera (cameraRef and every mounted engine) at the entry's anchor.
C4_PopRestoresAnchor ==
  [][\A p \in 1..Len(procs) :
       (/\ procs[p].kind = "exit"
        /\ procs'[p].pc \in {"done", "skipped", "aborted"}
        /\ procs[p].pc \notin {"done", "skipped", "aborted"}
        /\ Len(focusStack) > 0
        /\ Last(focusStack).hasAnchor)
         => /\ focusStack' = PopEntry(focusStack)
            /\ ShownCams(cys', cyByKey') = {AnchorOf(Last(focusStack))}]_vars

\* C5: from an empty stack an enter-focus on G makes the stack exactly
\* [entry G anchored at the camera of the request], and the exit-focus
\* requested on that one-entry stack makes the stack empty again.
C5_EnterExitPair ==
  [][/\ (Requested("enter") /\ focusStack = <<>>)
          => LET pr == procs'[Len(procs')]
             IN focusStack' = <<[id |-> pr.gid, hasAnchor |-> TRUE,
                                 pan |-> cys[pr.cy].cam.pan,
                                 zoom |-> cys[pr.cy].cam.zoom]>>
     /\ \A p \in 1..Len(procs) :
          (/\ procs[p].kind = "exit"
           /\ procs[p].len0 = 1
           /\ Len(focusStack) = 1
           /\ procs[p].pc \in {"fetch", "wait", "anim"}
           /\ procs'[p].pc \in {"done", "skipped", "aborted"})
            => focusStack' = <<>>]_vars

\* C5 witness: an enter from the empty stack, followed by the exit that was
\* requested on the one-entry stack, completed and emptied the stack again
C5_Witness ==
  /\ Len(procs) = 2
  /\ procs[1].kind = "enter" /\ procs[1].pushed /\ procs[1].len0 = 0
  /\ procs[2].kind = "exit" /\ procs[2].pc = "done" /\ procs[2].len0 = 1
  /\ focusStack = <<>>

\* C6: when the child layer never attaches within the poll budget, the
\* pre-transition layer is still mounted, at opacity 1 and active.
C6_AbortKeepsParentActive ==
  [][\A p \in 1..Len(procs) :
       (procs[p].kind = "enter" /\ Moves(p, "wait", "aborted"))
         => \E i \in 1..Len(layers') :
              /\ layers'[i].key = cys[procs[p].cy].key
              /\ layers'[i].opacity = 1
              /\ layers'[i].active]_vars

\* C7: the abort of an enter-focus (child never attached) does not remove the
\* entry pushed at its start: the abort leaves the focus stack as it is.
C7_AbortKeepsPush ==
  [][\A p \in 1..Len(procs) :
       (procs[p].kind = "enter" /\ Moves(p, "wait", "aborted"))
         => focusStack' = focusStack]_vars

\* C7 witness: an aborted enter-focus whose pushed entry is still on the stack
C7_Witness ==
  \E p \in 1..Len(procs) :
    /\ procs[p].kind = "enter" /\ procs[p].pc = "aborted"
    /\ procs[p].pushed
    /\ Len(focusStack) = procs[p].len0 + 1

\* C8: when the fetch of an enter-focus or exit-focus fails, the error state
\* becomes non-null and the layers and the focus stack are as before the request.
C8_FetchFailureSurfaced ==
  [][\A p \in 1..Len(procs) :
       Moves(p, "fetch", "failed")
         => /\ error' # ""
            /\ layers' = layers
            /\ focusStack' = focusStack
            /\ ~procs[p].pushed]_vars

\* C9: when an exit-focus transition completes, the parent layer is the only
\* mounted layer, active at opacity 1, and the stack is one entry shorter.
C9_ExitCompleteKeepsParent ==
  [][\A p \in 1..Len(procs) :
       (procs[p].kind = "exit" /\ Moves(p, "anim", "done"))
         => /\ Len(layers') = 1
            /\ layers'[1].key = procs[p].key
            /\ layers'[1].active
            /\ layers'[1].opacity = 1
            /\ Len(focusStack') = Len(focusStack) - 1]_vars

\* C10: while an exit-focus transition runs, the parent layer lies beneath the
\* child layer in the layer order and the child layer is the active one; the
\* parent layer is mounted at opacity 0.
C10_ParentBeneathChildActive ==
  /\ \A p \in 1..Len(procs) :
       (procs[p].kind = "exit" /\ procs[p].pc \in {"wait", "anim"})
         => \A i, j \in 1..Len(layers) :
              (layers[i].key = procs[p].key /\ layers[j].key = cys[procs[p].cy].key)
                => (i < j /\ layers[j].active)
  /\ \A p \in 1..Len(procs) :
       (procs[p].kind = "exit" /\ procs[p].pc = "wait")
         => \A i \in 1..Len(layers) :
              layers[i].key = procs[p].key => layers[i].opacity = 0

\* C11: while a transition runs alone and its animation has written the camera,
\* every mounted engine that is alive has the pan and zoom of the authoritative
\* (animated) engine, also while a layer animates a fit after its own layout.
C11_MirroredDuringTransition ==
  \A p \in 1..Len(procs) :
    (Len(procs) = 1 /\ procs[p].pc = "anim" /\ procs[p].stepped)
      => \A k \in DOMAIN cyByKey :
           cys[cyByKey[k]].alive => cys[cyByKey[k]].cam = cys[procs[p].cy].cam

\* C12: a step that takes the focus stack from empty to non-empty leaves the
\* recommended and related flags shown; a step that takes it from non-empty to
\* empty leaves both hidden.
C12_FlipSetsDefaults ==
  [][/\ (focusStack = <<>> /\ focusStack' # <<>>)
          => (show'.recommended /\ show'.related)
     /\ (focusStack # <<>> /\ focusStack' = <<>>)
          => (~show'.recommended /\ ~show'.related)]_vars

\* C12 witness: the stack was entered and left again by a completed exit-focus,
\* and the flags are those of the baseline
C12_Witness ==
  /\ \E p \in 1..Len(procs) : procs[p].kind = "exit" /\ procs[p].pc = "done"
  /\ focusStack = <<>>
  /\ autoDefaultsAppliedRef = "baseline"
  /\ ~show.recommended /\ ~show.related

\* C13: a step that changes the focus stack, the layers or a request, and keeps
\* the mode (stack empty before and after, or non-empty before and after),
\* leaves the recommended and related flags as they were.
C13_NavigationKeepsToggles ==
  [][((focusStack = <<>>) = (focusStack' = <<>>))
       => \/ (show'.recommended = show.recommended /\ show'.related = show.related)
          \/ UNCHANGED <<focusStack, layers, procs>>]_vars

\* C13 witness: two levels deep in focus mode, then back to the first level by
\* a completed exit-focus, with a manual toggle (recommended hidden) in place
C13_Witness ==
  /\ Len(procs) = 2
  /\ procs[1].kind = "enter" /\ procs[1].len0 = 1 /\ procs[1].pushed
  /\ procs[2].kind = "exit" /\ procs[2].pc = "done" /\ procs[2].len0 = 2
  /\ Len(focusStack) = 1
  /\ autoDefaultsAppliedRef = "focus"
  /\ ~show.recommended /\ show.related

\* ------------------------------------------------------ projection claims
\* the low-level edges whose endpoints are both impl nodes of the snapshot
\* and that run from abstract node a to abstract node b with type ty
LowEdges(a, b, ty) ==
  {i \in 1..Len(calc.edges) :
     /\ \E m \in 1..Len(ImplNodes) :
          ImplNodes[m].id = calc.edges[i].src_impl_id /\ ImplNodes[m].abstract_id = a
     /\ \E m \in 1..Len(ImplNodes) :
          ImplNodes[m].id = calc.edges[i].dst_impl_id /\ ImplNodes[m].abstract_id = b
     /\ calc.edges[i].type = ty}
BundlesOf(a, b, ty) ==
  {j \in 1..Len(calc.els) :
     calc.els[j].source = a /\ calc.els[j].target = b /\ calc.els[j].type = ty}
SumCounts(els) ==
  LET F[i \in 0..Len(els)] == IF i = 0 THEN 0 ELSE F[i-1] + els[i].count
  IN F[Len(els)]
NonNullRanks(a, b, ty) ==
  {calc.edges[i].rank : i \in {k \in LowEdges(a, b, ty) : calc.edges[k].rank # NullRank}}
IncomingRequires(n) == {j \in 1..Len(calc.els) :
                          calc.els[j].target = n /\ calc.els[j].type = "requires"}

\* C14: after a projection, every triple (source, target, type) with source
\* different from target has exactly one bundled edge iff some low-level edge
\* with both endpoints mapped projects to it, and none otherwise; the count of
\* the bundle is the number of those low-level edges.
C14_BundlesCountEdges ==
  calc.runs > 0 =>
    \A a \in AbstractNodes, b \in AbstractNodes, ty \in EdgeTypes :
      a # b =>
        IF LowEdges(a, b, ty) = {}
          THEN BundlesOf(a, b, ty) = {}
          ELSE /\ Cardinality(BundlesOf(a, b, ty)) = 1
               /\ \A j \in BundlesOf(a, b, ty) :
                    calc.els[j].count = Cardinality(LowEdges(a, b, ty))

\* C14 witness: a projection with two bundles, one of them of two edges
C14_Witness ==
  /\ calc.runs > 0
  /\ Len(calc.els) = 2
  /\ \E j \in 1..2 : calc.els[j].count = 2

\* C15: no bundled edge has its source equal to its target, and the counts of
\* the bundles add up to the number of mapped low-level edges whose endpoints
\* lie in different abstract nodes: an edge inside one abstract node counts nowhere.
C15_NoSelfBundles ==
  calc.runs > 0 =>
    /\ \A j \in 1..Len(calc.els) : calc.els[j].source # calc.els[j].target
    /\ SumCounts(calc.els) =
         Cardinality(UNION {IF a = b THEN {} ELSE LowEdges(a, b, ty) :
            a \in AbstractNodes, b \in AbstractNodes, ty \in EdgeTypes})

\* C15 witness: a snapshot with an edge between two impl nodes of A and an
\* edge between different abstract nodes was projected
C15_Witness ==
  /\ calc.runs > 0
  /\ \E ty \in EdgeTypes : LowEdges("A", "A", ty) # {}
  /\ Len(calc.els) >= 1

\* C16: the rank shown by a bundle is the least non-null rank of its
\* low-level edges, in whatever order they come, and is empty when all of
\* them have a null rank.
C16_RankIsMinimum ==
  calc.runs > 0 =>
    \A j \in 1..Len(calc.els) :
      LET rs == NonNullRanks(calc.els[j].source, calc.els[j].target, calc.els[j].type)
      IN IF rs = {} THEN calc.els[j].rank = <<>>
         ELSE /\ Len(calc.els[j].rank) = 1
              /\ calc.els[j].rank[1] \in rs
              /\ \A r \in rs : calc.els[j].rank[1] <= r

\* C16 witness: a bundle of three edges whose first rank is null and whose
\* least rank comes last
C16_Witness ==
  /\ calc.runs > 0
  /\ Len(calc.edges) = 3
  /\ calc.edges[1].rank = NullRank /\ calc.edges[2].rank = 2 /\ calc.edges[3].rank = 1
  /\ Len(calc.els) = 1
  /\ calc.els[1].count = 3
  /\ calc.els[1].rank = <<1>>

ScenarioEdges == <<Edge("b1", "a1", "requires", NullRank), Edge("c1", "a1", "requires", 2)>>
ScenarioRootsKnown ==
  /\ calc.edges = ScenarioEdges
  /\ calc.runs > 0
  /\ calc.roots # <<>>
ScenarioBundles ==
  {[source |-> calc.els[j].source, target |-> calc.els[j].target,
    type |-> calc.els[j].type, count |-> calc.els[j].count] : j \in 1..Len(calc.els)}

\* C18: for nodes {A,B,C} and requires edges B->A (rank null), C->A (rank 2)
\* the projection is exactly the bundles B->A and C->A of count 1, and with
\* no edge hidden the layout roots are exactly {A}.
C18_ScenarioRootA ==
  (ScenarioRootsKnown /\ Last(calc.roots).hidden = {})
    => /\ Len(calc.els) = 2
       /\ ScenarioBundles = {[source |-> "B", target |-> "A", type |-> "requires", count |-> 1],
                             [source |-> "C", target |-> "A", type |-> "requires", count |-> 1]}
       /\ Last(calc.roots).roots = {"A"}

\* C18, amended: same snapshot and same bundles; the layout roots are B and C,
\* the nodes without incoming requires edge, and A is not a root.
C18_ScenarioRootsBC ==
  (ScenarioRootsKnown /\ Last(calc.roots).hidden = {})
    => /\ Len(calc.els) = 2
       /\ ScenarioBundles = {[source |-> "B", target |-> "A", type |-> "requires", count |-> 1],
                             [source |-> "C", target |-> "A", type |-> "requires", count |-> 1]}
       /\ Last(calc.roots).roots = {"B", "C"}

\* C18 witness: the scenario was projected and its roots computed with no
\* edge hidden
C18_Witness ==
  /\ ScenarioRootsKnown
  /\ Len(calc.roots) = 1
  /\ calc.roots[1].hidden = {}

\* C19: every root computation returns exactly the nodes without incoming
\* requires edge that is visible; and the computation that follows the hiding
\* of the requires edges returns every node whose incoming requires edge was
\* a single one.
C19_RootsAreNodesWithoutVisibleIncoming ==
  calc.runs > 0 =>
    /\ \A k \in 1..Len(calc.roots) :
         calc.roots[k].roots =
           {n \in AbstractNodes :
              "requires" \in calc.roots[k].hidden \/ IncomingRequires(n) = {}}
    /\ (Len(calc.roots) = 2 /\ calc.roots[2].hidden = {"requires"})
         => \A n \in AbstractNodes :
              Cardinality(IncomingRequires(n)) = 1 => n \in calc.roots[2].roots

\* C19 witness: a node with a single incoming requires edge was no root, the
\* requires edges were hidden, and the next computation made it a root
C19_Witness ==
  /\ calc.runs > 0
  /\ Len(calc.roots) = 2
  /\ calc.roots[1].hidden = {} /\ calc.roots[2].hidden = {"requires"}
  /\ \E n \in AbstractNodes :
       /\ Cardinality(IncomingRequires(n)) = 1
       /\ n \notin calc.roots[1].roots
       /\ n \in calc.roots[2].roots

\* ------------------------------------------------------- highlight claims
\* C20: at every point of the highlight traversal the visited set and the set
\* of path nodes hold at most MAX_VISITED nodes, also when one node has more
\* incoming requires edges than the cap.
C20_VisitedWithinCap ==
  calc.phase \in {"loop", "done", "styled"} =>
    /\ Cardinality(calc.visited) <= MaxVisited
    /\ Cardinality(calc.pathNodes) <= MaxVisited

\* sources of the edges of es that point into a node of ns
SourcesInto(es, ns) == {e.source : e \in {x \in es : x.target \in ns}}
\* the nodes from which start is reached along at most k edges of es
RECURSIVE Upstream(_, _, _)
Upstream(es, start, k) ==
  IF k = 0 THEN {start}
  ELSE Upstream(es, start, k - 1) \cup SourcesInto(es, Upstream(es, start, k - 1))
RequiresOf(es) == {e \in es : e.type = "requires"}
VisibleRequiresOf(es) == {e \in es : e.type = "requires" /\ ~e.hidden}
Traversing == calc.fn = "highlight" /\ calc.phase \in {"loop", "done", "styled"}

\* C21: every node of the highlight path is within MAX_DEPTH = 3 incoming
\* requires edges of the start node, and no queue entry of depth 3 is expanded.
C21_PathWithinDepth ==
  Traversing =>
    /\ calc.pathNodes \subseteq Upstream(RequiresOf(calc.edges), calc.start, MAX_DEPTH)
    /\ \A q \in calc.expanded : q.depth < MAX_DEPTH

\* a finished traversal from s over the chain d -> c -> b -> a -> s: c, three
\* hops away, is on the path and was not expanded, d is left out
C21_Witness ==
  /\ calc.fn = "highlight" /\ calc.phase = "styled" /\ calc.start = "s"
  /\ ~calc.broke
  /\ HEdge("d", "c", "requires", FALSE) \in calc.edges
  /\ "c" \in calc.pathNodes /\ "d" \notin calc.pathNodes
  /\ [id |-> "b", depth |-> 2] \in calc.expanded
  /\ \A q \in calc.expanded : q.id # "c"

\* C22: when the traversal did not stop at the visited cap, the path nodes
\* are the start node and every node from which it is reached along at most 3
\* visible requires edges, and every path edge is a visible requires edge.
C22_PathIsReferenceSet ==
  (Traversing /\ calc.phase # "loop" /\ ~calc.broke) =>
    /\ calc.pathNodes = Upstream(VisibleRequiresOf(calc.edges), calc.start, MAX_DEPTH)
    /\ calc.pathEdges \subseteq VisibleRequiresOf(calc.edges)

\* a finished traversal from a over a graph where d points at a by a
\* recommended edge and at b by a hidden edge only: b is on the path, d is not
C22_Witness ==
  /\ calc.fn = "highlight" /\ calc.phase = "styled" /\ calc.start = "a"
  /\ ~calc.broke
  /\ HEdge("b", "a", "requires", FALSE) \in calc.edges
  /\ HEdge("d", "a", "recommended", FALSE) \in calc.edges
  /\ HEdge("d", "b", "requires", TRUE) \in calc.edges
  /\ calc.pathNodes = {"a", "b"}

\* C29: a highlight asked for an id that is no element changes no style
\* target and returns normally.
C29_UnknownIdIsNoOp ==
  (calc.fn = "highlight" /\ calc.phase # "rest" /\ calc.start \notin HNodeSet) =>
    /\ calc.phase \in {"idle", "noop"}
    /\ calc.nodeStyle = PlainNodes
    /\ calc.edgeStyle = PlainEdges(calc.edges)

\* the call for "zz" has returned on an engine that has edges
C29_Witness ==
  /\ calc.fn = "highlight" /\ calc.phase = "noop" /\ calc.start = "zz"
  /\ calc.edges # {}

\* every element has the style target restoreAll animates to
Restored ==
  /\ \A n \in HNodeSet : calc.nodeStyle[n] = "plain"
  /\ \A e \in calc.edges : calc.edgeStyle[e] = "plain"

Eligible(id) == NodeKind(id) = "group" /\ NodeHasChildren(id)
\* a select intent for a node leaves a dispatcher only from the timeout of a
\* tap that is still pending
NodeSelectOnlyFromPendingTap ==
  called'.onSelect \in Nodes =>
    /\ called'.handler = "timeout"
    /\ cys[called'.cy].tapTimer = called'.onSelect

\* C24: with the highlight mode on, the timeout of a single tap on a node of
\* a mounted layer selects the node and applies the prerequisite highlight
\* for it, also on a layer that was mounted before the mode was switched on.
C24_TapSelectsAndHighlights ==
  (called.handler = "timeout" /\ highlightPrereqs /\ cys[called.cy].alive) =>
    /\ called.onSelect \in Nodes
    /\ selected = called.onSelect
    /\ cys[called.cy].highlighted = called.onSelect

\* C25: a dbltap that arrives while a tap is pending cancels it, and emits no
\* select intent for a node; node select intents come from pending taps only.
C25_DblTapCancelsPendingTap ==
  [][/\ (called'.handler = "dbltap" /\ cys[called'.cy].tapTimer # NoNode) =>
          /\ cys'[called'.cy].tapTimer = NoNode
          /\ called'.onSelect \notin Nodes
     /\ NodeSelectOnlyFromPendingTap]_vars

\* a dbltap has just cancelled the pending tap on n
C25_Witness ==
  /\ called.handler = "dbltap" /\ called.clearTimeout = "n"
  /\ cys[called.cy].tapTimer = NoNode

C27_BackgroundTapClears ==
  [][/\ called'.handler = "background" =>
          /\ cys'[called'.cy].tapTimer = NoNode
          /\ called'.onSelect = NoNode /\ selected' = NoNode
          /\ called'.unselect /\ called'.restoreAll
     /\ called'.onSelect \in Nodes => cys[called'.cy].tapTimer # NoNode]_vars

\* a background tap has just cancelled the pending tap on G
C27_Witness ==
  /\ called.handler = "background" /\ called.clearTimeout = "G"
  /\ selected = NoNode /\ cys[called.cy].tapTimer = NoNode

\* C28: the timeout of a tap never runs on a layer that was torn down: no
\* select intent is emitted by a destroyed layer.
C28_NoSelectAfterTeardown ==
  called.handler = "timeout" => cys[called.cy].alive

\* ---------------------------------------------------------- layer keys
\* C30: no two layers of the layer list share a key, and the key of a layer
\* that a transition mounts is not the key of a layer still mounted, whatever
\* the timing of the transitions.
C30_LayerKeysUnique ==
  [][/\ \A i, j \in 1..Len(layers') : layers'[i].key = layers'[j].key => i = j
     /\ \A p \in 1..Len(procs) :
          Moves(p, "fetch", "wait") => procs'[p].key \notin KeysOf(layers)]_vars

\* --------------------------------------------------- navigation and layers
\* no handleEnterFocus or popFocus invocation is between its request and its end
NoneInFlight ==
  \A p \in 1..Len(procs) : procs[p].pc \in {"done", "aborted", "skipped", "failed"}

\* C34: whenever no transition is in flight there is one mounted layer and it
\* shows the scope of the top focus-stack entry, or the root scope when the
\* stack is empty.
C34_StackAndLayerAgree ==
  NoneInFlight =>
    /\ Len(layers) = 1
    /\ layers[1].graph = FocusIdOf(focusStack)

\* C35: the focus stack is popped only in the step in which an exit
\* transition completes; an exit that does not run or aborts leaves it alone.
C35_PopOnlyAfterExitCompleted ==
  [][Len(focusStack') < Len(focusStack) =>
       \E p \in 1..Len(procs) : procs[p].kind = "exit" /\ Moves(p, "anim", "done")]_vars

\* C36: no two adjacent entries of the focus stack have the same id.
C36_NoAdjacentDuplicates ==
  \A i \in 1..(Len(focusStack) - 1) : focusStack[i].id # focusStack[i + 1].id

\* a second drill into the group on top of the stack was requested and left
\* the stack as it was, and a drill into another group made it two deep
C36_Witness ==
  /\ Len(focusStack) = 2
  /\ \E p \in 1..Len(procs) :
       /\ procs[p].kind = "enter" /\ ~procs[p].pushed
       /\ procs[p].gid = focusStack[procs[p].len0].id

\* ------------------------------------------------------- mirroring claims
\* C31: a call of updateCamera raises no error, leaves pan and zoom of every
\* engine that is missing, destroyed or without a connected container as they
\* were, and writes the camera to every live engine, wherever the skipped
\* engines stand in the iteration order.
C31_MirrorSkipsTornDown ==
  [][(calc.fn = "mirror" /\ calc'.runs > calc.runs) =>
       /\ ~calc'.thrown
       /\ \A i \in 1..Len(calc.cys) :
            IF calc.cys[i].st = "live"
              THEN calc'.cys[i].cam = calc'.applied
              ELSE calc'.cys[i] = calc.cys[i]]_vars

\* a camera was mirrored past a missing engine and a torn-down one: a live
\* engine behind them has it, they do not
C31_Witness ==
  /\ calc.fn = "mirror" /\ calc.runs > 0 /\ calc.applied # DefaultCam
  /\ calc.cys[1].st = "null" /\ calc.cys[2].st \in {"destroyed", "detached"}
  /\ calc.cys[2].cam = DefaultCam
  /\ calc.cys[3].st = "live" /\ calc.cys[3].cam = calc.applied

\* ------------------------------------------------------- bundle id claims
\* C39: after a projection of two different triples there is one bundled edge
\* per triple, the ids of the two edges differ, and each edge's source, target
\* and type are those of its triple, whatever characters the abstract ids hold.
C39_BundleIdsInjective ==
  (calc.fn = "bundleIds" /\ calc.projected) =>
    /\ Len(calc.els) = 2
    /\ \A i, j \in 1..Len(calc.els) : i # j => calc.els[i].id # calc.els[j].id
    /\ \A i \in 1..Len(calc.els) :
         /\ calc.els[i].source = calc.els[i].of.source
         /\ calc.els[i].target = calc.els[i].of.target
         /\ calc.els[i].type = calc.els[i].of.type

\* -------------------------------------------------------- debounce claims
\* C38: each dispatcher has at most one scheduled single-tap callback; while
\* the callback of a burst of node taps is scheduled the burst has emitted no
\* select intent, and once it ran the burst has emitted exactly one, for the
\* node tapped last.
C38_OneTimerOneSelect ==
  calc.fn = "debounce" =>
    \A c \in Dispatchers :
      /\ Cardinality(calc.d[c].timers) <= 1
      /\ calc.d[c].burst # <<>> =>
           IF calc.d[c].timers = {}
             THEN calc.d[c].emitted = <<Last(calc.d[c].burst)>>
             ELSE calc.d[c].emitted = <<>>

\* a burst of three taps on different nodes has ended with its one selection
C38_Witness ==
  /\ calc.fn = "debounce"
  /\ \E c \in Dispatchers :
       /\ Len(calc.d[c].burst) = MaxBurst
       /\ calc.d[c].burst[1] # calc.d[c].burst[MaxBurst]
       /\ calc.d[c].timers = {}
       /\ calc.d[c].emitted = <<calc.d[c].burst[MaxBurst]>>

\* ----------------------------------------------------------- flag claims
\* C40: after a step that flipped the mode showRequires is true, and a step
\* that changed the focus stack within one mode leaves showRequires as it
\* was; any other change of it is a sidebar toggle.
C40_FlipForcesRequires ==
  calc.fn = "flags" =>
    /\ calc.step = "flip" => calc.show.requires
    /\ calc.step = "move" => calc.show.requires = calc.was
    /\ calc.show.requires # calc.was => calc.step \in {"flip", "toggle"}

\* the user had switched requires edges off and a flip switched them on, in
\* either direction
C40_Witness ==
  /\ calc.fn = "flags" /\ calc.step = "flip" /\ ~calc.was /\ calc.show.requires
  /\ Len(calc.stack) = 0

\* ----------------------------------------------------- visibility claims
\* C37: whenever a layer is on display and no transition is in flight, the
\* edge classes hidden on its engine are those whose flag is off.
C37_VisibilityMatchesFlags ==
  (calc.fn = "visibility" /\ calc.phase = "idle") =>
    calc.top.hidden = EdgeVisibility(calc.show)

\* ------------------------------------------------------ transition order
\* the camera animation of a transition starts in the step in which waitForCy
\* returned the engine registered under the transition's key, alive
AnimAfterMountConfirmed ==
  \A p \in 1..Len(procs) :
    (procs'[p].pc = "anim" /\ procs[p].pc # "anim") =>
      /\ procs[p].pc = "wait"
      /\ CyAt(cyByKey, procs[p].key) # 0
      /\ cys[CyAt(cyByKey, procs[p].key)].alive

\* the incoming layer of an enter transition that has not collapsed its
\* nodes yet (waitForCy has not returned an engine) is not shown
HiddenUntilCollapsed ==
  \A p \in 1..Len(procs) :
    (procs[p].kind = "enter" /\ procs[p].pc \in {"wait", "aborted"}) =>
      \A i \in 1..Len(layers) :
        layers[i].key = procs[p].key => layers[i].opacity = 0

Cleaned == calc.fn = "timing" /\ calc.cleaned.done

====
